---- MODULE Spec2Model ----
(***************************************************************************)
(* A model of the catechism student management system (csm-sjc): the       *)
(* admin dashboard (admin.js), the faculty dashboard (faculty.js), the     *)
(* shared utilities (common.js) and the student portal (student.js).       *)
(*                                                                         *)
(* The remote document store (Firestore) is the variable db; the local     *)
(* mirror of a dashboard is the variable DATA_MODELS; the listeners the    *)
(* store holds for the page are the variable listeners.                    *)
(***************************************************************************)
EXTENDS Integers, Sequences, FiniteSets, TLC

VARIABLES
    page,                   \* which dashboard is loaded: "admin" or "faculty"
    loc,                    \* "loading" (before the first auth callback), "running", "login" (redirected away)
    currentUserData,        \* userData of the verified user, or NoUser
    db,                     \* the remote store: collection name -> (document id -> data)
    DATA_MODELS,            \* the local mirror: collection name -> array of documents
    realtimeUnsubscribers,  \* window.realtimeUnsubscribers: array of listener handles
    listeners,              \* the listeners registered in the store for this page
    adminLoad,              \* loadAllDataForAdmin between its reads and its assignment: the fetched snapshots, or NoLoad
    activityLogs,           \* the activityLogs collection: sequence of action codes
    toast,                  \* the last message shown to the user (showSuccess / showError), or NoToast
    lastSnapshot,           \* history: per collection, the array built by the last snapshot callback
    errorsLogged,           \* history: the collections whose listener reported an error (console.error)
    snapshotAfterError,     \* history: a snapshot was processed after the listener of another collection reported an error
    report,                 \* the last report rendered, or NoReport
    bulkImportData,         \* window.bulkImportData: the parsed attendance file, or NoImportData
    importRun,              \* importBulkAttendance between its awaits: its position and its data, or NoRun
    importLog,              \* history: the records and the committed batches of the last importBulkAttendance
    deletedSessions,        \* history: the ids of the sessions deleteSession has deleted
    idCounter,              \* the number of ids generateId has returned
    STUDENT_DATA,           \* the data store of the student portal (student.js)
    localStorage,           \* the currentUser item of localStorage, or NoItem
    authRun,                \* logout() or handleUserRole() at its await of the sign-out request, or NoAuthRun
    signOutResult           \* how the last sign-out request of the page ended: "none", "ok" or "failed"

vars == << page, loc, currentUserData, db, DATA_MODELS, realtimeUnsubscribers,
           listeners, adminLoad, activityLogs, toast,
           lastSnapshot, errorsLogged, snapshotAfterError, report,
           bulkImportData, importRun, importLog, deletedSessions, idCounter, STUDENT_DATA,
           localStorage, authRun, signOutResult >>

(***************************************************************************)
(* Bounds of the model.                                                    *)
(***************************************************************************)
MaxStudents == 2        \* student ids s1..sMaxStudents
MaxListeners == 10      \* listeners the store holds for the page at one time
MaxLogs == 1            \* entries of activityLogs (caps the number of successful writes)
MaxRecords == 2         \* attendance records of the store the reports are rendered on
MaxSessionOps == 2      \* sessions saved and sessions deleted on the sessions page

(***************************************************************************)
(* Values.                                                                 *)
(***************************************************************************)
NoUser == [role |-> "none", classId |-> ""]
NoLoad == [state |-> "idle"]
NoToast == "none"
NoReport == [kind |-> "none"]
NoFilter == ""
NoImportData == [state |-> "none"]
NoRun == [pc |-> "idle"]
NoImportLog == [outcome |-> "none"]
NoStudentData == [attendance |-> << >>, scores |-> << >>]
NoItem == [key |-> "none"]
NoAuthRun == [fn |-> "none"]

\* The currentUser item handleUserRole stores for a user and the role
\* document of the user: {uid, email, role, classId: classId || null} (the
\* model leaves the email out and keeps '' for null).
UserItem(uid, userRoleDoc) ==
    [key |-> "currentUser", uid |-> uid, role |-> userRoleDoc.role, classId |-> userRoleDoc.classId]

StudentIds == { "s" \o ToString(i) : i \in 1..MaxStudents }
ClassIds == { "c1", "c2" }
Roles == { "admin", "faculty" }
SessionStatuses == { "Available", "NoClass" }
AttendanceStatuses == { "Present", "Absent", "Late", "Excused" }

\* The collections a dashboard mirrors through listeners, in the order
\* startRealtimeListeners opens them.
ListenedCollections == << "students", "sessions", "assessments", "attendance", "scores" >>
Mirrored == { ListenedCollections[i] : i \in 1..Len(ListenedCollections) }
\* The collections the faculty dashboard subscribes to with where('classId', '==', userClassId).
ClassScoped == { "students", "assessments", "attendance", "scores" }

\* JavaScript values that are not plain numbers or strings of the model.
JsNull == [type |-> "null"]
JsNaN == [type |-> "NaN"]
JsInfinity == [type |-> "Infinity"]
JsNum(n) == [type |-> "number", val |-> n]
JsStr(s) == [type |-> "string", val |-> s]
JsUndefined == [type |-> "undefined"]

(***************************************************************************)
(* Helpers on sequences and functions.                                     *)
(***************************************************************************)
Range(s) == { s[i] : i \in DOMAIN s }

\* The number of the student id "s<i>": what the numeric-aware
\* localeCompare compares for ids that differ in their digits only.
StudentNum(id) == IF id \in StudentIds
                  THEN CHOOSE i \in 1..MaxStudents : "s" \o ToString(i) = id
                  ELSE 0

\* The first elements (up to four) of a set in its fixed order.
FirstOfSet(S) ==
    LET x1 == CHOOSE y \in S : TRUE
        S1 == S \ {x1}
        x2 == CHOOSE y \in S1 : TRUE
        S2 == S1 \ {x2}
        x3 == CHOOSE y \in S2 : TRUE
        S3 == S2 \ {x3}
        x4 == CHOOSE y \in S3 : TRUE
    IN  IF S = {} THEN << >>
        ELSE IF S1 = {} THEN << x1 >>
        ELSE IF S2 = {} THEN << x1, x2 >>
        ELSE IF S3 = {} THEN << x1, x2, x3 >>
        ELSE << x1, x2, x3, x4 >>

RECURSIVE SetToSeq(_)
\* The documents of a snapshot in the order the store delivers them (one
\* fixed order per set of documents), taken four at a time.
SetToSeq(S) == IF S = {} THEN << >>
               ELSE LET first == FirstOfSet(S)
                    IN  first \o SetToSeq(S \ Range(first))

RECURSIVE SortByKey(_, _)
\* Array.prototype.sort (stable) of the array s, where key[i] is the number
\* the comparator orders s[i] by.
SortByKey(s, key) ==
    IF Len(s) = 0 THEN << >>
    ELSE LET m == CHOOSE i \in DOMAIN s :
                    \A j \in DOMAIN s : key[i] < key[j] \/ (key[i] = key[j] /\ i <= j)
             rest == [k \in 1..(Len(s) - 1) |-> IF k < m THEN s[k] ELSE s[k + 1]]
             restKey == [k \in 1..(Len(s) - 1) |-> IF k < m THEN key[k] ELSE key[k + 1]]
         IN  << s[m] >> \o SortByKey(rest, restKey)

\* sort with the comparator
\* String(a.studentId).localeCompare(String(b.studentId), undefined, {numeric: true}).
SortByStudentId(s) == SortByKey(s, [i \in DOMAIN s |-> StudentNum(s[i].studentId)])

\* sort((a, b) => new Date(a.date) - new Date(b.date)). A date 'YYYY-MM-DD'
\* is the number YYYYMMDD in the model.
SortByDate(s) == SortByKey(s, [i \in DOMAIN s |-> s[i].date])

\* sort((a, b) => new Date(b.date) - new Date(a.date)).
SortByDateDesc(s) == SortByKey(s, [i \in DOMAIN s |-> 0 - s[i].date])

RECURSIVE SumSeq(_)
\* The sum of a sequence of numbers.
SumSeq(s) == IF Len(s) = 0 THEN 0 ELSE s[1] + SumSeq(Tail(s))

(***************************************************************************)
(* The remote store.                                                       *)
(***************************************************************************)
NoDocs == [k \in {} |-> k]

\* setDoc(ref, data): the document is replaced.
SetDoc(store, col, id, data) ==
    [store EXCEPT ![col] = [k \in (DOMAIN @) \cup {id} |-> IF k = id THEN data ELSE @[k]]]

\* The merge of setDoc(ref, data, {merge: true}): the fields of data are
\* written, the other fields of an existing document are kept.
MergeData(old, data) ==
    [f \in (DOMAIN old) \cup (DOMAIN data) |-> IF f \in DOMAIN data THEN data[f] ELSE old[f]]

SetDocMerge(store, col, id, data) ==
    IF id \in DOMAIN store[col]
    THEN SetDoc(store, col, id, MergeData(store[col][id], data))
    ELSE SetDoc(store, col, id, data)

\* deleteDoc(ref).
DeleteDoc(store, col, id) ==
    [store EXCEPT ![col] = [k \in (DOMAIN @) \ {id} |-> @[k]]]

\* The ids of the documents a query returns: collection(db, col), or
\* query(collection(db, col), where('classId', '==', filter)).
QueryIds(store, col, filter) ==
    { id \in DOMAIN store[col] :
        \/ filter = NoFilter
        \/ ("classId" \in DOMAIN store[col][id] /\ store[col][id].classId = filter) }

\* A query snapshot: the array of [id, data] of the matching documents.
QuerySnapshot(store, col, filter) ==
    LET ids == SetToSeq(QueryIds(store, col, filter))
    IN  [i \in 1..Len(ids) |-> [id |-> ids[i], data |-> store[col][ids[i]]]]

\* The document keys of the attendance and the scores collections.
AttendanceDocId_StudentOnly(sessionId, studentId) == studentId
AttendanceDocId(sessionId, studentId) == sessionId \o "_" \o studentId
ScoreDocId(assessmentId, studentId) == assessmentId \o "_" \o studentId

(***************************************************************************)
(* The store the dashboards are opened on: two students in two classes,    *)
(* one session, one assessment per class, with attendance and scores.      *)
(***************************************************************************)
Users == { "uAdmin", "uFac1", "uFac2", "uFac0", "uNone" }

SeedStore ==
    [ students |->
        ( "s1" :> [studentId |-> "s1", classId |-> "c1"] ) @@
        ( "s2" :> [studentId |-> "s2", classId |-> "c2"] ),
      sessions |->
        ( "x1" :> [id |-> "x1", date |-> 20240110, status |-> "Available", noClassReason |-> JsNull] ),
      assessments |->
        ( "a1" :> [id |-> "a1", name |-> "Quiz 1", date |-> 20240115, totalMarks |-> 50, classId |-> "c1"] ) @@
        ( "a2" :> [id |-> "a2", name |-> "Quiz 2", date |-> 20240120, totalMarks |-> 50, classId |-> "c2"] ),
      attendance |->
        ( AttendanceDocId("x1", "s1") :>
            [sessionId |-> "x1", studentId |-> "s1", status |-> "Present", classId |-> "c1"] ) @@
        ( AttendanceDocId("x1", "s2") :>
            [sessionId |-> "x1", studentId |-> "s2", status |-> "Late", classId |-> "c2"] ),
      scores |->
        ( ScoreDocId("a1", "s1") :>
            [assessmentId |-> "a1", studentId |-> "s1", marks |-> JsNum(40), classId |-> "c1"] ) @@
        ( ScoreDocId("a2", "s2") :>
            [assessmentId |-> "a2", studentId |-> "s2", marks |-> JsNull, classId |-> "c2"] ),
      userRoles |->
        ( "uAdmin" :> [role |-> "admin", classId |-> ""] ) @@
        ( "uFac1" :> [role |-> "faculty", classId |-> "c1"] ) @@
        ( "uFac2" :> [role |-> "faculty", classId |-> "c2"] ) @@
        ( "uFac0" :> [role |-> "faculty", classId |-> ""] ),
      classes |->
        ( "c1" :> [name |-> "Class 1"] ) @@
        ( "c2" :> [name |-> "Class 2"] ) ]

\* const DATA_MODELS = {...}: the admin dashboard has seven tables, the
\* faculty dashboard five.
EmptyModels(p) ==
    IF p = "admin"
    THEN [students |-> << >>, sessions |-> << >>, attendance |-> << >>,
          assessments |-> << >>, scores |-> << >>, userRoles |-> << >>, classes |-> << >>]
    ELSE [students |-> << >>, sessions |-> << >>, attendance |-> << >>,
          assessments |-> << >>, scores |-> << >>]

(***************************************************************************)
(* Realtime listeners (admin.js and faculty.js).                           *)
(***************************************************************************)
histVars == << lastSnapshot, errorsLogged, snapshotAfterError >>

\* The state of the bulk attendance import, of the sessions and of the
\* student portal.
importVars == << bulkImportData, importRun >>
sessionVars == << importLog, deletedSessions, idCounter >>
loginVars == << localStorage, authRun, signOutResult >>
opVars == << importVars, sessionVars, STUDENT_DATA, loginVars >>

\* The array a snapshot callback builds from the delivered documents:
\* doc.data() for students (then sorted), sessions, attendance and scores,
\* {id: doc.id, ...doc.data()} for assessments.
SnapshotArray(col, docs) ==
    LET datas == [i \in 1..Len(docs) |->
                    IF col = "assessments"
                    THEN MergeData([id |-> docs[i].id], docs[i].data)
                    ELSE docs[i].data]
    IN  IF col = "students" THEN SortByStudentId(datas) ELSE datas

\* The options of the select of a student in the form.
FormStatuses == { "Present", "Absent", "Late", "Excused" }

\* The option the form selects for a student: the status of the record the
\* mirror has for the session and the student, 'Present' without one (and
\* the first option, Present, for a status that is no option).
FormStatus(models, sessionId, studentId) ==
    LET hits == SelectSeq(models.attendance,
                          LAMBDA a : a.sessionId = sessionId /\ a.studentId = studentId)
    IN  IF Len(hits) > 0 /\ hits[1].status \in FormStatuses THEN hits[1].status ELSE "Present"

\* The form renderAttendanceForm(sessionId) builds from a mirror: one select
\* per student of the mirror when the mirror has the session, a hint without
\* selects otherwise.
AttendanceForm(models, sessionId) ==
    [kind |-> "attendanceForm", sessionId |-> sessionId,
     inputs |-> IF \A i \in DOMAIN models.sessions : models.sessions[i].id # sessionId
                THEN << >>
                ELSE [sid \in { x.studentId : x \in Range(models.students) } |->
                         FormStatus(models, sessionId, sid)]]

\* The value of the session select after renderSessionsTable() has filled
\* it again from the mirror: populateDropdown() restores the selection when
\* the session is still an option, that is Available, and the select falls
\* back to its first option '' otherwise.
SessionDateValue(models, sessionId) ==
    IF \E i \in DOMAIN models.sessions :
           models.sessions[i].id = sessionId /\ models.sessions[i].status = "Available"
    THEN sessionId ELSE ""

\* What a snapshot callback renders anew from the mirror it has filled:
\* updateReportDropdown(), which the students callback calls, clears the
\* student report; the sessions callback renders the attendance form for the
\* value of the session select, the attendance callback for that value when
\* it is not ''.
ReportAfterSnapshot(col, models) ==
    IF col = "students" /\ report.kind = "student" THEN NoReport
    ELSE IF col = "sessions" /\ report.kind = "attendanceForm"
    THEN AttendanceForm(models, SessionDateValue(models, report.sessionId))
    ELSE IF col = "attendance" /\ report.kind = "attendanceForm" /\ report.sessionId # ""
    THEN AttendanceForm(models, report.sessionId)
    ELSE report

\* The success callback of one onSnapshot listener: the whole array of the
\* collection is replaced by the contents of the snapshot.
OnSnapshot(col, docs) ==
    /\ DATA_MODELS' = [DATA_MODELS EXCEPT ![col] = SnapshotArray(col, docs)]
    /\ report' = ReportAfterSnapshot(col, DATA_MODELS')
    /\ lastSnapshot' = [lastSnapshot EXCEPT ![col] = SnapshotArray(col, docs)]
    /\ snapshotAfterError' = (snapshotAfterError \/ errorsLogged \ {col} # {})
    /\ UNCHANGED errorsLogged

\* The store delivers a snapshot of the query of listener l.
Snapshot(l) ==
    /\ loc = "running"
    /\ l \in listeners
    /\ OnSnapshot(l.col, QuerySnapshot(db, l.col, l.filter))
    /\ UNCHANGED << page, loc, currentUserData, db, realtimeUnsubscribers, listeners,
                    adminLoad, activityLogs, toast, opVars >>

\* An error callback that also empties the table of its collection.
ListenerError_ClearsMirror(l) ==
    /\ loc = "running"
    /\ l \in listeners
    /\ errorsLogged' = errorsLogged \cup {l.col}
    /\ DATA_MODELS' = [DATA_MODELS EXCEPT ![l.col] = << >>]
    /\ UNCHANGED << page, loc, currentUserData, db, realtimeUnsubscribers,
                    listeners, adminLoad, activityLogs, toast,
                    lastSnapshot, snapshotAfterError, report, opVars >>

\* The error callback of one onSnapshot listener: console.error only. (The
\* model lets a listener that reported an error deliver further snapshots;
\* the code takes no notice of the error either way.)
ListenerError(l) ==
    /\ loc = "running"
    /\ l \in listeners
    /\ errorsLogged' = errorsLogged \cup {l.col}
    /\ UNCHANGED << page, loc, currentUserData, db, DATA_MODELS, realtimeUnsubscribers,
                    listeners, adminLoad, activityLogs, toast,
                    lastSnapshot, snapshotAfterError, report, opVars >>

\* stopRealtimeListeners(): every handle of window.realtimeUnsubscribers is
\* called, then the array is emptied. The result is the pair of the
\* listeners left in the store and the new array.
StopRealtimeListeners(unsubs, ls) ==
    IF Len(unsubs) > 0
    THEN [listeners |-> { l \in ls : l.h \notin Range(unsubs) }, unsubs |-> << >>]
    ELSE [listeners |-> ls, unsubs |-> unsubs]

\* The query startRealtimeListeners builds for a collection: unscoped on the
\* admin dashboard; on the faculty dashboard scoped to the class of the
\* user, except for the sessions.
ListenerFilter(p, col, userClassId) ==
    IF p = "faculty" /\ col \in ClassScoped THEN userClassId ELSE NoFilter

\* The five onSnapshot calls of startRealtimeListeners, each followed by the
\* push of its handle.
OpenListeners(p, userClassId, first) ==
    [i \in 1..Len(ListenedCollections) |->
        [h |-> first + i - 1, col |-> ListenedCollections[i],
         filter |-> ListenerFilter(p, ListenedCollections[i], userClassId)]]

\* The handles onSnapshot returns are new objects: the model numbers them
\* from the first number that no listener of the page uses.
FreshHandle(ls) == CHOOSE n \in 1..(MaxListeners + 1) :
                      /\ \A l \in ls : l.h < n
                      /\ \A m \in 1..(n - 1) : \E l \in ls : l.h >= m

\* startRealtimeListeners without its call of stopRealtimeListeners.
StartRealtimeListeners_NoStop(p, userClassId, unsubs, ls) ==
    LET opened == OpenListeners(p, userClassId, FreshHandle(ls))
    IN  [listeners |-> ls \cup Range(opened),
         unsubs |-> unsubs \o [i \in 1..Len(opened) |-> opened[i].h]]

\* startRealtimeListeners() once its guards have passed: the old listeners
\* are stopped, the new ones opened.
StartRealtimeListeners(p, userClassId, unsubs, ls) ==
    LET stopped == StopRealtimeListeners(unsubs, ls)
        opened == OpenListeners(p, userClassId, FreshHandle(stopped.listeners))
    IN  [listeners |-> stopped.listeners \cup Range(opened),
         unsubs |-> stopped.unsubs \o [i \in 1..Len(opened) |-> opened[i].h]]

\* verifyRoleFromServer(uid, expectedRole): the userData, or a failure when
\* the role document is missing or has another role.
VerifyRoleFromServer(store, uid, expectedRole) ==
    IF uid \notin DOMAIN store.userRoles THEN [ok |-> FALSE, userData |-> NoUser]
    ELSE IF store.userRoles[uid].role # expectedRole THEN [ok |-> FALSE, userData |-> NoUser]
    ELSE [ok |-> TRUE, userData |-> store.userRoles[uid]]

\* The data loadAllDataForAdmin reads: getDocs of the seven collections.
AdminCollections == { "students", "sessions", "attendance", "assessments", "scores", "userRoles", "classes" }

FetchAll(store) ==
    [state |-> "fetched",
     snapshots |-> [c \in AdminCollections |-> QuerySnapshot(store, c, NoFilter)]]

\* The array loadAllDataForAdmin builds for a collection: doc.data() with
\* data.id = doc.id, and data.uid = doc.id for the userRoles.
AdminLoadArray(col, docs) ==
    [i \in 1..Len(docs) |->
        IF col = "userRoles"
        THEN MergeData(docs[i].data, [id |-> docs[i].id, uid |-> docs[i].id])
        ELSE MergeData(docs[i].data, [id |-> docs[i].id])]

\* window.location.href = 'index.html': the page is left and its script
\* state is gone with it, the listeners of the page included.
Redirected ==
    /\ loc' = "login"
    /\ listeners' = {}
    /\ realtimeUnsubscribers' = << >>
    /\ currentUserData' = NoUser
    /\ DATA_MODELS' = EmptyModels(page)
    /\ adminLoad' = NoLoad
    /\ toast' = NoToast
    /\ report' = NoReport
    /\ lastSnapshot' = [c \in Mirrored |-> << >>]
    /\ errorsLogged' = {}
    /\ snapshotAfterError' = FALSE
    /\ bulkImportData' = NoImportData
    /\ importRun' = NoRun

\* logout() of common.js: stopRealtimeListeners(), the removal of
\* currentUser, the sign-out request and, whether it fails or not, the
\* redirect to index.html.
Logout ==
    /\ Redirected
    /\ localStorage' = NoItem
    /\ signOutResult' \in { "ok", "failed" }

\* The onAuthStateChanged callback of the admin dashboard, for the user
\* uid ("" when no user is signed in).
AdminAuthStateChanged(uid) ==
    /\ page = "admin"
    /\ loc # "login"
    /\ LET v == VerifyRoleFromServer(db, uid, "admin")
       IN  IF uid # "" /\ v.ok
           THEN /\ Cardinality(listeners) + Len(ListenedCollections) <= MaxListeners
                /\ adminLoad = NoLoad
                /\ currentUserData' = v.userData
                /\ loc' = "running"
                /\ LET started == StartRealtimeListeners(page, v.userData.classId,
                                     realtimeUnsubscribers, listeners)
                   IN  /\ listeners' = started.listeners
                       /\ realtimeUnsubscribers' = started.unsubs
                /\ adminLoad' = FetchAll(db)
                /\ UNCHANGED << DATA_MODELS, toast, histVars, report, importVars,
                                localStorage, signOutResult >>
           ELSE Logout
    /\ UNCHANGED << page, db, activityLogs, sessionVars, STUDENT_DATA, authRun >>

\* The onAuthStateChanged callback of the faculty dashboard.
FacultyAuthStateChanged(uid) ==
    /\ page = "faculty"
    /\ loc # "login"
    /\ LET v == VerifyRoleFromServer(db, uid, "faculty")
       IN  IF uid = ""
           THEN \* no user: window.location.href = 'index.html'
                Redirected /\ UNCHANGED << localStorage, signOutResult >>
           ELSE IF ~v.ok
           THEN \* the role check failed: alert(...), the logout is commented out
                /\ toast' = "error"
                /\ UNCHANGED << loc, currentUserData, realtimeUnsubscribers, listeners,
                                DATA_MODELS, adminLoad, histVars, report, importVars,
                                localStorage, signOutResult >>
           ELSE IF v.userData.classId = ""
           THEN \* startRealtimeListeners: no assigned class, logout()
                Logout
           ELSE /\ Cardinality(listeners) + Len(ListenedCollections) <= MaxListeners
                /\ currentUserData' = v.userData
                /\ loc' = "running"
                /\ LET started == StartRealtimeListeners(page, v.userData.classId,
                                     realtimeUnsubscribers, listeners)
                   IN  /\ listeners' = started.listeners
                       /\ realtimeUnsubscribers' = started.unsubs
                /\ UNCHANGED << toast, DATA_MODELS, adminLoad, histVars, report, importVars,
                                localStorage, signOutResult >>
    /\ UNCHANGED << page, db, activityLogs, sessionVars, STUDENT_DATA, authRun >>

\* loadAllDataForAdmin() after its reads have resolved: every table of
\* DATA_MODELS is replaced by what was read; or the reads fail and the error
\* is thrown to the caller.
AdminLoadResolve(ok) ==
    /\ page = "admin"
    /\ loc = "running"
    /\ adminLoad # NoLoad
    /\ adminLoad' = NoLoad
    /\ IF ok
       THEN /\ DATA_MODELS' = [c \in AdminCollections |-> AdminLoadArray(c, adminLoad.snapshots[c])]
            /\ UNCHANGED toast
       ELSE /\ toast' = "error"
            /\ UNCHANGED DATA_MODELS
    /\ importRun' = IF importRun.pc = "refresh" THEN NoRun ELSE importRun
    /\ UNCHANGED << page, loc, currentUserData, db, realtimeUnsubscribers, listeners,
                    activityLogs, histVars, report, bulkImportData, sessionVars, STUDENT_DATA, loginVars >>

\* handleNavTabClick on the admin-panel tab: loadAllDataForAdmin() is called.
AdminPanelTabClick ==
    /\ page = "admin"
    /\ loc = "running"
    /\ adminLoad = NoLoad
    /\ adminLoad' = FetchAll(db)
    /\ UNCHANGED << page, loc, currentUserData, db, DATA_MODELS, realtimeUnsubscribers,
                    listeners, activityLogs, toast, histVars, report, opVars >>

(***************************************************************************)
(* Students (admin.js and faculty.js).                                     *)
(***************************************************************************)
\* createAuditLog(action, details): one entry is appended to activityLogs.
CreateAuditLog(logs, action) == Append(logs, [action |-> action])

\* The class a saved student gets: the dropdown on the admin dashboard, the
\* class of the user on the faculty dashboard.
StudentClassId(p, classIdInput, userData) ==
    IF p = "admin" THEN classIdInput ELSE userData.classId

\* saveStudent(): of the fields of the form the model keeps studentIdInput
\* and, on the admin dashboard, classIdInput; hiddenId is the hidden field
\* editStudent fills. ok tells whether the store accepts the write.
SaveStudent(studentIdInput, classIdInput, hiddenId, ok) ==
    /\ loc = "running"
    /\ LET classId == StudentClassId(page, classIdInput, currentUserData)
           student == [studentId |-> studentIdInput, classId |-> classId]
       IN  IF studentIdInput = "" \/ classId = ""
           THEN /\ toast' = "error"
                /\ UNCHANGED << db, activityLogs >>
           ELSE IF ok
           THEN /\ Len(activityLogs) < MaxLogs
                /\ db' = SetDocMerge(db, "students", studentIdInput, student)
                /\ activityLogs' = CreateAuditLog(activityLogs,
                                      IF hiddenId # "" THEN "student_updated" ELSE "student_created")
                /\ toast' = "success"
           ELSE /\ toast' = "error"
                /\ UNCHANGED << db, activityLogs >>
    /\ UNCHANGED << page, loc, currentUserData, DATA_MODELS, realtimeUnsubscribers, listeners,
                    adminLoad, histVars, report, opVars >>

\* deleteStudent(studentId), confirmed by the user, for a row of the table
\* rendered from the mirror.
DeleteStudent(studentId, ok) ==
    /\ loc = "running"
    /\ \E i \in DOMAIN DATA_MODELS.students : DATA_MODELS.students[i].studentId = studentId
    /\ IF ok
       THEN /\ Len(activityLogs) < MaxLogs
            /\ db' = DeleteDoc(db, "students", studentId)
            /\ activityLogs' = CreateAuditLog(activityLogs, "student_deleted")
            /\ toast' = "success"
       ELSE /\ toast' = "error"
            /\ UNCHANGED << db, activityLogs >>
    /\ UNCHANGED << page, loc, currentUserData, DATA_MODELS, realtimeUnsubscribers, listeners,
                    adminLoad, histVars, report, opVars >>

(***************************************************************************)
(* The specification of the mirror: a dashboard is loaded on the seeded    *)
(* store, the auth callbacks start the listeners, snapshots and listener   *)
(* errors arrive, the user saves and deletes students.                     *)
(***************************************************************************)
Init ==
    /\ page \in Roles
    /\ loc = "loading"
    /\ currentUserData = NoUser
    /\ db = SeedStore
    /\ DATA_MODELS = EmptyModels(page)
    /\ realtimeUnsubscribers = << >>
    /\ listeners = {}
    /\ adminLoad = NoLoad
    /\ activityLogs = << >>
    /\ toast = NoToast
    /\ lastSnapshot = [c \in Mirrored |-> << >>]
    /\ errorsLogged = {}
    /\ snapshotAfterError = FALSE
    /\ report = NoReport
    /\ bulkImportData = NoImportData
    /\ importRun = NoRun
    /\ importLog = NoImportLog
    /\ deletedSessions = {}
    /\ idCounter = 0
    /\ STUDENT_DATA = NoStudentData
    /\ localStorage = NoItem
    /\ authRun = NoAuthRun
    /\ signOutResult = "none"

Next ==
    \/ \E uid \in Users \cup {""} : AdminAuthStateChanged(uid)
    \/ \E uid \in Users \cup {""} : FacultyAuthStateChanged(uid)
    \/ \E l \in listeners : Snapshot(l)
    \/ \E ok \in BOOLEAN : AdminLoadResolve(ok)
    \/ AdminPanelTabClick
    \/ \E sid \in (DOMAIN SeedStore.students) \cup {""}, cid \in ClassIds \cup {""}, ok \in BOOLEAN :
          \E hid \in {"", sid} : SaveStudent(sid, cid, hid, ok)
    \/ \E sid \in DOMAIN SeedStore.students, ok \in BOOLEAN : DeleteStudent(sid, ok)

Spec == Init /\ [][Next]_vars

(***************************************************************************)
(* The specification of the listener errors: the listeners are started,    *)
(* snapshots and errors arrive, students are deleted.                      *)
(***************************************************************************)
NextErrors ==
    \/ \E uid \in Users \cup {""} : AdminAuthStateChanged(uid)
    \/ \E uid \in Users \cup {""} : FacultyAuthStateChanged(uid)
    \/ \E l \in listeners : Snapshot(l)
    \/ \E l \in listeners : ListenerError(l)
    \/ \E sid \in DOMAIN SeedStore.students, ok \in BOOLEAN : DeleteStudent(sid, ok)

SpecErrors == Init /\ [][NextErrors]_vars

(***************************************************************************)
(* Attendance reports (admin.js, faculty.js, common.js). The operators     *)
(* take the mirror they read as the parameter models.                      *)
(***************************************************************************)
\* Math.round(num / den) for num >= 0 and den > 0, in exact arithmetic.
RoundDiv(num, den) == (2 * num + den) \div (2 * den)

\* Math.round((p / n) * 100) for p >= 0 and n >= 0: 0 / 0 is NaN and p / 0
\* is Infinity, which Math.round returns as they are.
JsPercent(p, n) ==
    IF n = 0 THEN (IF p = 0 THEN JsNaN ELSE JsInfinity)
    ELSE JsNum(RoundDiv(100 * p, n))

\* A test that takes only the status Present for an attended session.
IsPresentOrLate_PresentOnly(status) == status = "Present"

\* status === 'Present' || status === 'Late'
IsPresentOrLate(status) == status = "Present" \/ status = "Late"

\* DATA_MODELS.sessions.filter(s => s.status === 'Available')
AvailableSessions(models) == SelectSeq(models.sessions, LAMBDA s : s.status = "Available")

\* DATA_MODELS.attendance.find(a => a.sessionId === sessionId && a.studentId === studentId)
FindAttendance(attendance, sessionId, studentId) ==
    LET hits == SelectSeq(attendance, LAMBDA a : a.sessionId = sessionId /\ a.studentId = studentId)
    IN  IF Len(hits) > 0 THEN hits[1] ELSE JsUndefined

\* DATA_MODELS.attendance.filter(a => a.studentId === studentId &&
\*     (a.status === 'Present' || a.status === 'Late')).length
PresentCount(models, studentId) ==
    Len(SelectSeq(models.attendance,
                  LAMBDA a : a.studentId = studentId /\ IsPresentOrLate(a.status)))

\* The status a report shows for a student and a session: the status of the
\* record, 'Absent' when there is none.
CellStatus(attendance, sessionId, studentId) ==
    LET record == FindAttendance(attendance, sessionId, studentId)
    IN  IF record # JsUndefined THEN record.status ELSE "Absent"

\* A row of the overall matrix that counts a missing record as attended.
OverallRow_MissingCounts(models, sessions, student) ==
    LET cells == [j \in 1..Len(sessions) |->
                     CellStatus(models.attendance, sessions[j].id, student.studentId)]
        presentCount == Cardinality({ j \in DOMAIN cells :
                            \/ IsPresentOrLate(cells[j])
                            \/ FindAttendance(models.attendance, sessions[j].id, student.studentId) = JsUndefined })
    IN  [studentId |-> student.studentId, cells |-> cells, presentCount |-> presentCount,
         percentage |-> JsPercent(presentCount, Len(sessions))]

\* One row of the overall matrix: the cells of the sessions, and the
\* percentage of the cells that are Present or Late.
OverallRow(models, sessions, student) ==
    LET cells == [j \in 1..Len(sessions) |->
                     CellStatus(models.attendance, sessions[j].id, student.studentId)]
        presentCount == Cardinality({ j \in DOMAIN cells : IsPresentOrLate(cells[j]) })
    IN  [studentId |-> student.studentId, cells |-> cells, presentCount |-> presentCount,
         percentage |-> JsPercent(presentCount, Len(sessions))]

\* generateOverallAttendanceReport(): the summary and the matrix, or 'No
\* data available.'
OverallAttendanceReport(models) ==
    LET sessions == SortByDate(AvailableSessions(models))
        students == SortByStudentId(models.students)
        rows == [i \in 1..Len(students) |-> OverallRow(models, sessions, students[i])]
        totalPresentCount == SumSeq([i \in 1..Len(rows) |-> rows[i].presentCount])
        totalPossibleSlots == Len(students) * Len(sessions)
    IN  IF Len(sessions) = 0 \/ Len(students) = 0
        THEN [kind |-> "overall", noData |-> TRUE]
        ELSE [kind |-> "overall", noData |-> FALSE,
              sessions |-> [j \in 1..Len(sessions) |-> sessions[j].id],
              rows |-> rows,
              classAverage |-> IF totalPossibleSlots > 0
                               THEN JsPercent(totalPresentCount, totalPossibleSlots)
                               ELSE JsNum(0)]

\* DATA_MODELS.sessions.find(s => s.id === sessionId)
FindSession(models, sessionId) ==
    LET hits == SelectSeq(models.sessions, LAMBDA s : s.id = sessionId)
    IN  IF Len(hits) > 0 THEN hits[1] ELSE JsUndefined

\* The rows of the day-wise report: every student of the mirror with the
\* status shown for the session.
DaywiseRows(models, sessionId) ==
    [i \in 1..Len(models.students) |->
        [studentId |-> models.students[i].studentId,
         status |-> CellStatus(models.attendance, sessionId, models.students[i].studentId)]]

\* A bucket test that takes the late students for present.
InPresentBucket_WithLate(status) == status = "Present" \/ status = "Late"

\* if (status === 'Present') presentStudents.push(rowData); else absentStudents.push(rowData);
InPresentBucket(status) == status = "Present"

\* generateDaywiseAttendanceReport() for the session chosen in the dropdown.
\* (The faculty dashboard first orders the students by name; both buckets
\* are ordered by student id afterwards.)
DaywiseAttendanceReport(models, sessionId) ==
    LET session == FindSession(models, sessionId)
        rows == DaywiseRows(models, sessionId)
    IN  IF sessionId = "" THEN [kind |-> "daywise", outcome |-> "select", sessionId |-> sessionId]
        ELSE IF session = JsUndefined
        THEN [kind |-> "daywise", outcome |-> "notfound", sessionId |-> sessionId]
        ELSE IF session.status = "NoClass"
        THEN [kind |-> "daywise", outcome |-> "noclass", sessionId |-> sessionId]
        ELSE [kind |-> "daywise", outcome |-> "buckets", sessionId |-> sessionId,
              presentStudents |-> SortByStudentId(SelectSeq(rows, LAMBDA r : InPresentBucket(r.status))),
              absentStudents |-> SortByStudentId(SelectSeq(rows, LAMBDA r : ~InPresentBucket(r.status)))]

\* session.date.substring(0, 7): the month YYYYMM of the date YYYYMMDD.
MonthOf(date) == date \div 100

\* renderAttendanceChart(studentId, DATA_MODELS) of common.js: one bar per
\* month that has an Available session, in the order of the months.
AttendanceChart(sessions, attendance, studentId) ==
    LET available == SelectSeq(sessions, LAMBDA s : s.status = "Available")
        monthSet == { MonthOf(available[i].date) : i \in DOMAIN available }
        months == SortByKey(SetToSeq(monthSet), SetToSeq(monthSet))
        Bar(m) ==
            LET inMonth == SelectSeq(available, LAMBDA s : MonthOf(s.date) = m)
                total == Len(inMonth)
                present == Len(SelectSeq(inMonth, LAMBDA s :
                               LET att == FindAttendance(attendance, s.id, studentId)
                               IN  att # JsUndefined /\ IsPresentOrLate(att.status)))
            IN  [month |-> m,
                 percentage |-> IF total > 0 THEN JsPercent(present, total) ELSE JsNum(0)]
    IN  [i \in 1..Len(months) |-> Bar(months[i])]

\* DATA_MODELS.assessments.find(a => a.id === assessmentId)
FindAssessment(models, assessmentId) ==
    LET hits == SelectSeq(models.assessments, LAMBDA a : a.id = assessmentId)
    IN  IF Len(hits) > 0 THEN hits[1] ELSE JsUndefined

\* assessmentDetails of generateStudentReport: one entry per score record
\* of the student, ordered by the date of the assessment. (An entry whose
\* assessment is missing has the date ''; the model orders it first.)
AssessmentDetails(models, studentId) ==
    LET studentScores == SelectSeq(models.scores, LAMBDA s : s.studentId = studentId)
        Detail(score) ==
            LET assessment == FindAssessment(models, score.assessmentId)
            IN  [name |-> IF assessment # JsUndefined THEN assessment.name ELSE "Unknown",
                 date |-> IF assessment # JsUndefined THEN assessment.date ELSE 0,
                 totalMarks |-> IF assessment # JsUndefined /\ assessment.totalMarks > 0
                                THEN assessment.totalMarks ELSE 0,
                 marks |-> score.marks]
    IN  SortByDate([i \in 1..Len(studentScores) |-> Detail(studentScores[i])])

\* One row of the Assessment History table of the student report.
ReportScoreRow(d) ==
    [name |-> d.name,
     marks |-> IF d.marks = JsNull THEN JsStr("N/A") ELSE d.marks,
     totalMarks |-> d.totalMarks,
     percentage |-> IF d.totalMarks > 0 /\ d.marks # JsNull
                    THEN JsPercent(d.marks.val, d.totalMarks)
                    ELSE JsStr("N/A")]

\* renderMarksChart(assessmentDetails) of common.js: the percentages, null
\* for missing data.
MarksChart(details) ==
    [i \in 1..Len(details) |->
        IF details[i].totalMarks > 0 /\ details[i].marks # JsNull
        THEN JsPercent(details[i].marks.val, details[i].totalMarks)
        ELSE JsNull]

\* The percentage of the student report without its test of totalSessionsHeld.
StudentAttendancePercentage_NoGuard(presentCount, totalSessionsHeld) ==
    JsPercent(presentCount, totalSessionsHeld)

\* totalSessionsHeld > 0 ? Math.round((presentCount / totalSessionsHeld) * 100) : 0
StudentAttendancePercentage(presentCount, totalSessionsHeld) ==
    IF totalSessionsHeld > 0 THEN JsPercent(presentCount, totalSessionsHeld) ELSE JsNum(0)

\* generateStudentReport(studentId) for a student of the mirror, with the
\* two charts it draws.
StudentReport(models, studentId) ==
    LET totalSessionsHeld == Len(AvailableSessions(models))
        presentCount == PresentCount(models, studentId)
        details == AssessmentDetails(models, studentId)
    IN  [kind |-> "student", studentId |-> studentId,
         totalSessionsHeld |-> totalSessionsHeld,
         presentCount |-> presentCount,
         attendancePercentage |-> StudentAttendancePercentage(presentCount, totalSessionsHeld),
         assessmentRows |-> [i \in 1..Len(details) |-> ReportScoreRow(details[i])],
         marksChart |-> MarksChart(details),
         attendanceChart |-> AttendanceChart(models.sessions, models.attendance, studentId)]

\* A dashboard average that rounds once, after the mean of the students'
\* unrounded percentages.
DashboardReport_RoundsOnce(models) ==
    LET available == AvailableSessions(models)
        students == models.students
        counts == [i \in 1..Len(students) |-> PresentCount(models, students[i].studentId)]
    IN  [kind |-> "dashboard",
         totalStudents |-> Len(students),
         classesHeld |-> Len(available),
         avgAttendance |-> IF Len(students) > 0 /\ Len(available) > 0
                           THEN JsNum(RoundDiv(100 * SumSeq(counts), Len(available) * Len(students)))
                           ELSE JsNum(0)]

\* renderDashboard(): the three figures of the stats cards.
DashboardReport(models) ==
    LET available == AvailableSessions(models)
        students == models.students
        percentages == [i \in 1..Len(students) |->
                           JsPercent(PresentCount(models, students[i].studentId), Len(available)).val]
    IN  [kind |-> "dashboard",
         totalStudents |-> Len(students),
         classesHeld |-> Len(available),
         avgAttendance |-> IF Len(students) > 0 /\ Len(available) > 0
                           THEN JsNum(RoundDiv(SumSeq(percentages), Len(students)))
                           ELSE JsNum(0)]

\* Math.round(totalPercentage / students.length), where totalPercentage is
\* the sum over the students of (presentCount / n) * 100, in exact
\* arithmetic; students is not empty and n > 0.
ClassAttendanceAverage(models, students, n) ==
    LET counts == [i \in 1..Len(students) |-> PresentCount(models, students[i].studentId)]
    IN  JsNum(RoundDiv(100 * SumSeq(counts), n * Len(students)))

\* The rows of the faculty performance table of renderAdminAnalytics().
FacultyPerformance(models) ==
    LET faculty == SelectSeq(models.userRoles, LAMBDA u : u.role = "faculty")
        n == Len(AvailableSessions(models))
        Row(fac) ==
            LET students == SelectSeq(models.students, LAMBDA s : s.classId = fac.classId)
                validStudents == IF n > 0 THEN Len(students) ELSE 0
            IN  [uid |-> fac.uid, studentCount |-> Len(students),
                 avgAttendance |-> IF validStudents > 0
                                   THEN ClassAttendanceAverage(models, students, n)
                                   ELSE JsNum(0)]
    IN  [i \in 1..Len(faculty) |-> Row(faculty[i])]

\* DATA_MODELS.classes.find(c => c.id === classId)
FindClass(models, classId) ==
    LET hits == SelectSeq(models.classes, LAMBDA c : c.id = classId)
    IN  IF Len(hits) > 0 THEN hits[1] ELSE JsUndefined

\* The class attendance chart of renderAnalyticsCharts() for the value
\* classId of the class filter ('' for all classes).
ClassAttendanceChart(models, classId) ==
    LET n == Len(AvailableSessions(models))
        classesToChart == IF classId # "" THEN << FindClass(models, classId) >> ELSE models.classes
        charted == SelectSeq(classesToChart, LAMBDA c : c # JsUndefined)
        Bar(classObj) ==
            LET studentsInClass == SelectSeq(models.students, LAMBDA s : s.classId = classObj.id)
            IN  [label |-> classObj.name,
                 value |-> IF Len(studentsInClass) = 0 THEN JsNum(0)
                           ELSE ClassAttendanceAverage(models, studentsInClass, n)]
    IN  IF n > 0 THEN [i \in 1..Len(charted) |-> Bar(charted[i])] ELSE << >>

\* A choice of the averaged scores that takes marks null for 0 marks.
ChartedScores_NullAsZero(models, assessment) ==
    LET all == SelectSeq(models.scores, LAMBDA s : s.assessmentId = assessment.id)
    IN  [i \in 1..Len(all) |->
            IF all[i].marks = JsNull THEN [all[i] EXCEPT !.marks = JsNum(0)] ELSE all[i]]

\* The scores renderAnalyticsCharts() averages for an assessment:
\* DATA_MODELS.scores.filter(s => s.assessmentId === assessment.id && s.marks !== null)
ChartedScores(models, assessment) ==
    SelectSeq(models.scores, LAMBDA s : s.assessmentId = assessment.id /\ s.marks # JsNull)

\* The class assessment chart of renderAnalyticsCharts(): per assessment
\* Math.round(totalScore / scores.length), where totalScore is the sum of
\* (marks / totalMarks) * 100 in exact arithmetic; null when the assessment
\* has no score.
ClassAssessmentChart(models, classId) ==
    LET assessmentsToChart ==
            IF classId # "" THEN SelectSeq(models.assessments, LAMBDA a : a.classId = classId)
            ELSE models.assessments
        Point(assessment) ==
            LET scores == ChartedScores(models, assessment)
                marks == [i \in 1..Len(scores) |-> scores[i].marks.val]
            IN  [label |-> assessment.name,
                 value |-> IF Len(scores) = 0 THEN JsNull
                           ELSE IF assessment.totalMarks > 0
                           THEN JsNum(RoundDiv(100 * SumSeq(marks), assessment.totalMarks * Len(scores)))
                           ELSE JsNum(0)]
    IN  [i \in 1..Len(assessmentsToChart) |-> Point(assessmentsToChart[i])]

\* renderAdminAnalytics(), which ends with renderAnalyticsCharts().
AnalyticsReport(models, classId) ==
    [kind |-> "analytics", classId |-> classId,
     faculty |-> FacultyPerformance(models),
     chartData |-> ClassAttendanceChart(models, classId),
     assessmentData |-> ClassAssessmentChart(models, classId)]

(***************************************************************************)
(* The student portal (student.js).                                        *)
(***************************************************************************)
\* The documents of a collection, of whatever student:
\* getDocs(collection(db, col)).
DocsOfStudent_NoWhere(store, col, studentId) ==
    LET ids == SetToSeq(DOMAIN store[col])
    IN  [i \in 1..Len(ids) |-> store[col][ids[i]]]

\* The documents of a collection whose studentId is the given one:
\* getDocs(query(collection(db, col), where('studentId', '==', studentId))).
DocsOfStudent(store, col, studentId) ==
    LET ids == SetToSeq({ id \in DOMAIN store[col] : store[col][id].studentId = studentId })
    IN  [i \in 1..Len(ids) |-> store[col][ids[i]]]

\* fetchStudentData(): the attendance records of the student whose session
\* exists, with the date of the session; the score records of the student
\* whose assessment exists, with the name, date and total of the assessment.
FetchStudentData(store, studentId) ==
    LET att == SelectSeq(DocsOfStudent(store, "attendance", studentId),
                         LAMBDA d : d.sessionId \in DOMAIN store.sessions)
        sc == SelectSeq(DocsOfStudent(store, "scores", studentId),
                        LAMBDA d : d.assessmentId \in DOMAIN store.assessments)
    IN  [attendance |-> [i \in 1..Len(att) |->
                            MergeData(att[i], [date |-> store.sessions[att[i].sessionId].date])],
         scores |-> [i \in 1..Len(sc) |->
                        [marks |-> sc[i].marks,
                         assessmentName |-> store.assessments[sc[i].assessmentId].name,
                         date |-> store.assessments[sc[i].assessmentId].date,
                         totalMarks |-> store.assessments[sc[i].assessmentId].totalMarks]]]

\* One row of the results table of renderResults().
PortalScoreRow(score) ==
    [name |-> score.assessmentName,
     marks |-> IF score.marks # JsNull THEN score.marks ELSE JsStr("Abs"),
     totalMarks |-> score.totalMarks,
     percentage |-> IF score.marks # JsNull
                    THEN JsPercent(score.marks.val, score.totalMarks)
                    ELSE JsStr("-")]

\* The reverse of an array.
Reverse(s) == [i \in 1..Len(s) |-> s[Len(s) + 1 - i]]

\* renderAttendance() and renderResults() on the fetched data.
PortalReport(data, studentId) ==
    LET sortedAtt == SortByDateDesc(data.attendance)
        presentCount == Len(SelectSeq(sortedAtt, LAMBDA a : IsPresentOrLate(a.status)))
        total == Len(sortedAtt)
        scoresForTable == SortByDateDesc(data.scores)
        scoresForChart == Reverse(scoresForTable)
    IN  [kind |-> "portal", studentId |-> studentId,
         total |-> total,
         perc |-> IF total > 0 THEN JsPercent(presentCount, total) ELSE JsNum(0),
         attendanceChart |->
             AttendanceChart([i \in 1..Len(sortedAtt) |->
                                 [date |-> sortedAtt[i].date, id |-> sortedAtt[i].sessionId,
                                  status |-> "Available"]],
                             sortedAtt, studentId),
         results |-> [i \in 1..Len(scoresForTable) |-> PortalScoreRow(scoresForTable[i])],
         marksChart |-> MarksChart([i \in 1..Len(scoresForChart) |->
                                       [name |-> scoresForChart[i].assessmentName,
                                        marks |-> scoresForChart[i].marks,
                                        totalMarks |-> scoresForChart[i].totalMarks]])]

(***************************************************************************)
(* The report handlers. report holds what the handler rendered last.       *)
(***************************************************************************)
notReport == << page, loc, currentUserData, db, DATA_MODELS, realtimeUnsubscribers,
                listeners, adminLoad, activityLogs, toast, histVars, opVars >>

\* generateOverallAttendanceReport() on a dashboard.
GenerateOverallAttendanceReport ==
    /\ page \in Roles
    /\ loc = "running"
    /\ report' = OverallAttendanceReport(DATA_MODELS)
    /\ UNCHANGED notReport

\* generateDaywiseAttendanceReport() with sessionId chosen in the dropdown.
GenerateDaywiseAttendanceReport(sessionId) ==
    /\ page \in Roles
    /\ loc = "running"
    /\ report' = DaywiseAttendanceReport(DATA_MODELS, sessionId)
    /\ UNCHANGED notReport

\* generateStudentReport(studentId): nothing is rendered when the mirror
\* has no such student.
GenerateStudentReport(studentId) ==
    /\ page \in Roles
    /\ loc = "running"
    /\ IF \E i \in DOMAIN DATA_MODELS.students : DATA_MODELS.students[i].studentId = studentId
       THEN report' = StudentReport(DATA_MODELS, studentId)
       ELSE UNCHANGED report
    /\ UNCHANGED notReport

\* renderDashboard() on a dashboard.
RenderDashboard ==
    /\ page \in Roles
    /\ loc = "running"
    /\ report' = DashboardReport(DATA_MODELS)
    /\ UNCHANGED notReport

\* renderAdminAnalytics() on the admin dashboard, with classId the value of
\* the class filter.
RenderAdminAnalytics(classId) ==
    /\ page = "admin"
    /\ loc = "running"
    /\ report' = AnalyticsReport(DATA_MODELS, classId)
    /\ UNCHANGED notReport

\* The DOMContentLoaded handler of the student portal for the student of
\* the session storage: fetchStudentData(), renderAttendance(),
\* renderResults().
StudentPortalLoad(studentId) ==
    /\ page = "student"
    /\ loc = "loading"
    /\ loc' = "running"
    /\ STUDENT_DATA' = FetchStudentData(db, studentId)
    /\ report' = PortalReport(STUDENT_DATA', studentId)
    /\ UNCHANGED << page, currentUserData, db, DATA_MODELS, realtimeUnsubscribers,
                    listeners, adminLoad, activityLogs, toast, histVars, importVars, sessionVars, loginVars >>

(***************************************************************************)
(* The specification of the attendance reports: a page is opened on a      *)
(* store with three sessions and up to MaxRecords attendance records, the  *)
(* dashboards have received the snapshots of the store, and the reports    *)
(* are rendered.                                                           *)
(***************************************************************************)
\* The sessions of the store and their dates.
ReportSessionDates == ("x1" :> 20240110) @@ ("x2" :> 20240117) @@ ("x3" :> 20240207)
ReportSessionIds == DOMAIN ReportSessionDates

\* The statuses of the sessions: the sessions up to some date were held
\* (Available), the later ones were cancelled (NoClass).
ReportSessionStatuses ==
    { [x \in ReportSessionIds |->
          IF ReportSessionDates[x] <= d THEN "Available" ELSE "NoClass"] :
      d \in {0} \cup { ReportSessionDates[x] : x \in ReportSessionIds } }

\* The students of the store: those of the seeded store, all in class c1.
ReportStudentIds == DOMAIN SeedStore.students
ReportClassOf(studentId) == "c1"

\* The store with the sessions of the given statuses and the attendance
\* records att (a function from pairs of a session and a student to the
\* status), each under its key sessionId_studentId.
ReportStore(statusOf, att) ==
    [SeedStore EXCEPT
        !.students = [id \in ReportStudentIds |-> [studentId |-> id, classId |-> ReportClassOf(id)]],
        !.sessions = [x \in ReportSessionIds |->
                        [id |-> x, date |-> ReportSessionDates[x], status |-> statusOf[x],
                         noClassReason |-> IF statusOf[x] = "NoClass" THEN JsStr("Holiday") ELSE JsNull]],
        !.attendance = [k \in { AttendanceDocId(p[1], p[2]) : p \in DOMAIN att } |->
                          LET p == CHOOSE q \in DOMAIN att : AttendanceDocId(q[1], q[2]) = k
                          IN  [sessionId |-> p[1], studentId |-> p[2], status |-> att[p],
                               classId |-> ReportClassOf(p[2])]],
        !.scores = ( ScoreDocId("a1", "s1") :>
                        [assessmentId |-> "a1", studentId |-> "s1", marks |-> JsNum(40), classId |-> "c1"] ) @@
                   ( ScoreDocId("a1", "s2") :>
                        [assessmentId |-> "a1", studentId |-> "s2", marks |-> JsNull, classId |-> "c1"] )]

\* The mirror of a dashboard once every listener has delivered the
\* snapshot of the store (and, on the admin dashboard, loadAllDataForAdmin
\* has filled the userRoles and classes tables before).
SettledModels(p, userClassId, store) ==
    LET Table(c) == SnapshotArray(c, QuerySnapshot(store, c, ListenerFilter(p, c, userClassId)))
        Loaded(c) == AdminLoadArray(c, QuerySnapshot(store, c, NoFilter))
    IN  IF p = "admin"
        THEN [students |-> Table("students"), sessions |-> Table("sessions"),
              attendance |-> Table("attendance"), assessments |-> Table("assessments"),
              scores |-> Table("scores"), userRoles |-> Loaded("userRoles"),
              classes |-> Loaded("classes")]
        ELSE IF p = "faculty"
        THEN [students |-> Table("students"), sessions |-> Table("sessions"),
              attendance |-> Table("attendance"), assessments |-> Table("assessments"),
              scores |-> Table("scores")]
        ELSE EmptyModels(p)

\* The state of a page opened on the store: the admin dashboard of uAdmin,
\* the faculty dashboard of uFac1 (class c1), both with their listeners
\* started and their snapshots delivered, or the student portal before its
\* load handler has run.
OpenedOn(store) ==
    /\ db = store
    /\ currentUserData = IF page = "admin" THEN store.userRoles["uAdmin"]
                         ELSE IF page = "faculty" THEN store.userRoles["uFac1"]
                         ELSE NoUser
    /\ loc = IF page = "student" THEN "loading" ELSE "running"
    /\ LET started == StartRealtimeListeners(page, currentUserData.classId, << >>, {})
       IN  /\ listeners = IF page = "student" THEN {} ELSE started.listeners
           /\ realtimeUnsubscribers = IF page = "student" THEN << >> ELSE started.unsubs
    /\ DATA_MODELS = SettledModels(page, currentUserData.classId, store)
    /\ lastSnapshot = [c \in Mirrored |-> DATA_MODELS[c]]
    /\ adminLoad = NoLoad
    /\ activityLogs = << >>
    /\ toast = NoToast
    /\ errorsLogged = {}
    /\ snapshotAfterError = FALSE
    /\ report = NoReport
    /\ bulkImportData = NoImportData
    /\ importRun = NoRun
    /\ importLog = NoImportLog
    /\ deletedSessions = {}
    /\ idCounter = 0
    /\ STUDENT_DATA = NoStudentData
    /\ localStorage = IF page = "admin" THEN UserItem("uAdmin", store.userRoles["uAdmin"])
                      ELSE IF page = "faculty" THEN UserItem("uFac1", store.userRoles["uFac1"])
                      ELSE NoItem
    /\ authRun = NoAuthRun
    /\ signOutResult = "none"

InitReports ==
    /\ page \in Roles \cup {"student"}
    /\ \E statusOf \in ReportSessionStatuses,
          pairs \in SUBSET (ReportSessionIds \X ReportStudentIds) :
          /\ Cardinality(pairs) <= MaxRecords
          /\ \E att \in [pairs -> AttendanceStatuses] : OpenedOn(ReportStore(statusOf, att))

\* The values of the session dropdown: the sessions, no choice, and an
\* option left from a session that is gone.
DaywiseChoices == ReportSessionIds \cup {"", "x0"}

\* The values of the student dropdown: the students, and an option left
\* from a student that is gone.
StudentChoices == ReportStudentIds \cup {"s0"}

NextReports ==
    \/ GenerateOverallAttendanceReport
    \/ \E sessionId \in DaywiseChoices : GenerateDaywiseAttendanceReport(sessionId)
    \/ \E studentId \in StudentChoices : GenerateStudentReport(studentId)
    \/ RenderDashboard
    \/ \E classId \in ClassIds \cup {""} : RenderAdminAnalytics(classId)
    \/ \E studentId \in ReportStudentIds : StudentPortalLoad(studentId)

SpecReports == InitReports /\ [][NextReports]_vars

(***************************************************************************)
(* Scores (admin.js and faculty.js). While the scores modal is open,       *)
(* report holds it: window._currentScoresAssessmentId and the value of     *)
(* the score input of every listed student. The model keeps one rendered   *)
(* view at a time.                                                         *)
(***************************************************************************)
\* The numbers whose text a user types into a score input.
MarkNumbers == {1, 40, 60}
\* The values of a score input: the text of a number, or '' (left empty).
MarkInputs == {""} \cup { ToString(n) : n \in MarkNumbers }

\* Number(marksStr): 0 for '', the number for the text of a number, NaN
\* otherwise.
JsNumber(marksStr) ==
    IF marksStr = "" THEN JsNum(0)
    ELSE IF \E n \in MarkNumbers : ToString(n) = marksStr
    THEN JsNum(CHOOSE n \in MarkNumbers : ToString(n) = marksStr)
    ELSE JsNaN

\* DATA_MODELS.scores.find(s => s.assessmentId === assessmentId && s.studentId === studentId)
FindScore(models, assessmentId, studentId) ==
    LET hits == SelectSeq(models.scores,
                          LAMBDA s : s.assessmentId = assessmentId /\ s.studentId = studentId)
    IN  IF Len(hits) > 0 THEN hits[1] ELSE JsUndefined

\* The value openScoresModal gives the input of a student:
\* (existing && existing.marks !== null) ? existing.marks : ''
ScoreInputValue(existing) ==
    IF existing # JsUndefined /\ existing.marks # JsNull
    THEN ToString(existing.marks.val)
    ELSE ""

\* The students openScoresModal lists: those of the class of the assessment
\* on the admin dashboard, all students of the mirror on the faculty
\* dashboard.
ModalStudentIds(p, models, assessment) ==
    { s.studentId : s \in { t \in Range(models.students) :
                              p = "faculty" \/ t.classId = assessment.classId } }

\* openScoresModal(assessmentId): the id is stored; when the mirror has the
\* assessment the inputs are rendered and the modal is shown, otherwise an
\* error is shown and the view stays as it is.
OpenScoresModal(assessmentId) ==
    /\ page \in Roles
    /\ loc = "running"
    /\ LET assessment == FindAssessment(DATA_MODELS, assessmentId)
       IN  IF assessment = JsUndefined
           THEN /\ toast' = "error"
                /\ report' = IF report.kind = "scoresModal"
                             THEN [report EXCEPT !.assessmentId = assessmentId]
                             ELSE report
           ELSE /\ report' = [kind |-> "scoresModal", assessmentId |-> assessmentId,
                              inputs |-> [sid \in ModalStudentIds(page, DATA_MODELS, assessment) |->
                                            ScoreInputValue(FindScore(DATA_MODELS, assessmentId, sid))]]
                /\ UNCHANGED toast
    /\ UNCHANGED << page, loc, currentUserData, db, DATA_MODELS, realtimeUnsubscribers,
                    listeners, adminLoad, activityLogs, histVars, opVars >>

\* The user types a value into the score input of a student.
TypeScore(studentId, value) ==
    /\ report.kind = "scoresModal"
    /\ studentId \in DOMAIN report.inputs
    /\ report' = [report EXCEPT !.inputs[studentId] = value]
    /\ UNCHANGED notReport

\* A reading of a score input that does not test for the empty text.
ParseMarks_NoEmptyTest(marksStr) == JsNumber(marksStr)

\* let marks = null; if (marksStr !== '') marks = Number(marksStr);
ParseMarks(marksStr) == IF marksStr # "" THEN JsNumber(marksStr) ELSE JsNull

\* isNaN(marks) || marks < 0 || marks > assessment.totalMarks
InvalidMarks(marks, totalMarks) ==
    marks = JsNaN \/ marks.val < 0 \/ marks.val > totalMarks

RECURSIVE SetDocsMerge(_, _, _)
\* The setDoc(docRef, s, {merge: true}) calls for the sequence of documents.
SetDocsMerge(store, col, docs) ==
    IF Len(docs) = 0 THEN store
    ELSE SetDocsMerge(SetDocMerge(store, col, docs[1].id, docs[1].data), col, Tail(docs))

\* The class saveScores writes into a score record: the class of the
\* assessment on the admin dashboard, the class of the user on the faculty
\* dashboard.
ScoreClassId(p, assessment, userData) ==
    IF p = "admin" THEN assessment.classId ELSE userData.classId

\* saveScores(): every input is read and checked, then one write per
\* input is issued; failed is the set of students whose write the store
\* rejects. (updatedAt is left out of the record.)
SaveScores(failed) ==
    /\ page \in Roles
    /\ loc = "running"
    /\ report.kind = "scoresModal"
    /\ failed \subseteq DOMAIN report.inputs
    /\ LET assessmentId == report.assessmentId
           assessment == FindAssessment(DATA_MODELS, assessmentId)
           marksOf == [sid \in DOMAIN report.inputs |-> ParseMarks(report.inputs[sid])]
           written == SetToSeq(DOMAIN report.inputs \ failed)
           toWrite == [i \in 1..Len(written) |->
                         [id |-> ScoreDocId(assessmentId, written[i]),
                          data |-> [assessmentId |-> assessmentId, studentId |-> written[i],
                                    marks |-> marksOf[written[i]],
                                    classId |-> ScoreClassId(page, assessment, currentUserData)]]]
       IN  IF assessment = JsUndefined
           THEN /\ failed = {}
                /\ toast' = "error"
                /\ UNCHANGED << db, report >>
           ELSE IF \E sid \in DOMAIN marksOf :
                      marksOf[sid] # JsNull /\ InvalidMarks(marksOf[sid], assessment.totalMarks)
           THEN /\ failed = {}
                /\ toast' = "error"
                /\ UNCHANGED << db, report >>
           ELSE /\ db' = SetDocsMerge(db, "scores", toWrite)
                /\ IF failed = {}
                   THEN toast' = "success" /\ report' = NoReport
                   ELSE toast' = "error" /\ UNCHANGED report
    /\ UNCHANGED << page, loc, currentUserData, DATA_MODELS, realtimeUnsubscribers,
                    listeners, adminLoad, activityLogs, histVars, opVars >>

(***************************************************************************)
(* The specification of the scores: a page is opened on a store with the   *)
(* students s1 and s2 of class c1 and the assessment a1 of that class;     *)
(* scores are typed and saved, snapshots arrive, the views that show       *)
(* scores are rendered.                                                    *)
(***************************************************************************)
\* The totals of assessment a1.
TotalMarksChoices == {8, 50}

\* The score records of assessment a1 a store may hold: per student none,
\* one with marks null, or one with a number up to the total.
ScoreChoices(total) ==
    { JsUndefined, JsNull } \cup { JsNum(n) : n \in { m \in MarkNumbers : m <= total } }

ScoresStore(total, marksOf) ==
    LET base == ReportStore([x \in ReportSessionIds |-> "Available"], << >>)
        scored == { sid \in DOMAIN marksOf : marksOf[sid] # JsUndefined }
    IN  [base EXCEPT
            !.assessments = [@ EXCEPT !["a1"].totalMarks = total],
            !.scores = [k \in { ScoreDocId("a1", sid) : sid \in scored } |->
                          LET sid == CHOOSE s \in scored : ScoreDocId("a1", s) = k
                          IN  [assessmentId |-> "a1", studentId |-> sid,
                               marks |-> marksOf[sid], classId |-> ReportClassOf(sid)]]]

InitScores ==
    /\ page \in Roles \cup {"student"}
    /\ \E total \in TotalMarksChoices :
          \E marksOf \in [ReportStudentIds -> ScoreChoices(total)] :
              OpenedOn(ScoresStore(total, marksOf))

NextScores ==
    \/ \E assessmentId \in DOMAIN SeedStore.assessments : OpenScoresModal(assessmentId)
    \/ \E studentId \in ReportStudentIds, value \in MarkInputs : TypeScore(studentId, value)
    \/ \E failed \in SUBSET ReportStudentIds : SaveScores(failed)
    \/ \E l \in listeners : Snapshot(l)
    \/ \E studentId \in StudentChoices : GenerateStudentReport(studentId)
    \/ \E classId \in ClassIds \cup {""} : RenderAdminAnalytics(classId)
    \/ \E studentId \in ReportStudentIds : StudentPortalLoad(studentId)

SpecScores == InitScores /\ [][NextScores]_vars

(***************************************************************************)
(* Bulk attendance import (admin.js).                                      *)
(***************************************************************************)
\* const BATCH_SIZE = 450
BATCH_SIZE == 450

\* The raw values of the cells of an attendance file.
RawCells == { "P", "L", "E", "A", "" }

\* The status parseBulkAttendanceCSV reads from a cell: an empty cell is
\* 'A'; P, PRESENT, 1, Y, YES give Present, L and LATE give Late, E and
\* EXCUSED give Excused, everything else Absent.
StatusOfCell(rawValue) ==
    IF rawValue \in { "P", "PRESENT", "1", "Y", "YES" } THEN "Present"
    ELSE IF rawValue \in { "L", "LATE" } THEN "Late"
    ELSE IF rawValue \in { "E", "EXCUSED" } THEN "Excused"
    ELSE "Absent"

\* The id of the session of a date: the date itself ('YYYY-MM-DD'); the
\* model writes the date YYYYMMDD as its digits.
SessionIdOfDate(date) == ToString(date)

\* DATA_MODELS.students.find(s => String(s.studentId).trim() === String(csvStudentId).trim())
FindStudent(models, studentId) ==
    LET hits == SelectSeq(models.students, LAMBDA s : s.studentId = studentId)
    IN  IF Len(hits) > 0 THEN hits[1] ELSE JsUndefined

RECURSIVE Flatten(_)
\* The concatenation of a sequence of sequences.
Flatten(ss) == IF Len(ss) = 0 THEN << >> ELSE ss[1] \o Flatten(Tail(ss))

\* The records parseBulkAttendanceCSV builds for one row of the file: none
\* when the row has no student id or the mirror has no such student,
\* otherwise one per date column the row reaches. (updatedAt is left out.)
RecordsOfRow(models, dates, row) ==
    LET student == FindStudent(models, row.studentId)
        reached == IF Len(row.cells) < Len(dates) THEN Len(row.cells) ELSE Len(dates)
    IN  IF row.studentId = "" \/ student = JsUndefined THEN << >>
        ELSE [j \in 1..reached |->
                [sessionId |-> SessionIdOfDate(dates[j]), studentId |-> student.studentId,
                 classId |-> student.classId, status |-> StatusOfCell(row.cells[j])]]

\* Array.from(sessionDates).sort(): the dates of the header, each once, in
\* ascending order.
UniqueSessions(dates) ==
    LET set == Range(dates)
        rank == [d \in set |-> Cardinality({ e \in set : e <= d })]
    IN  [i \in 1..Cardinality(set) |-> CHOOSE d \in set : rank[d] = i]

\* parseBulkAttendanceCSV(content) for a file whose header has the date
\* columns dates and whose rows are rows ([studentId, cells]): without a
\* date column, or without a row of a student of the mirror, a message is
\* shown and window.bulkImportData stays as it is.
ParseBulkAttendanceCSV(csv) ==
    /\ page = "admin"
    /\ loc = "running"
    /\ LET validRows == SelectSeq(csv.rows, LAMBDA r :
                            r.studentId # "" /\ FindStudent(DATA_MODELS, r.studentId) # JsUndefined)
           attendanceData == Flatten([i \in 1..Len(csv.rows) |->
                                         RecordsOfRow(DATA_MODELS, csv.dates, csv.rows[i])])
       IN  IF Len(csv.dates) = 0 \/ Len(validRows) = 0
           THEN UNCHANGED bulkImportData
           ELSE bulkImportData' = [state |-> "parsed", sessions |-> UniqueSessions(csv.dates),
                                   attendance |-> attendanceData]
    /\ UNCHANGED << page, loc, currentUserData, db, DATA_MODELS, realtimeUnsubscribers,
                    listeners, adminLoad, activityLogs, toast, histVars, report,
                    importRun, sessionVars, STUDENT_DATA, loginVars >>

\* The session document importBulkAttendance writes for a date (createdAt
\* is left out).
ImportedSession(date) ==
    [id |-> SessionIdOfDate(date),
     data |-> [id |-> SessionIdOfDate(date), date |-> date, status |-> "Available"]]

\* The set operation of a batch for a record: the key and the record.
BatchSet(record) ==
    [id |-> AttendanceDocId(record.sessionId, record.studentId), data |-> record]

\* A slice that runs to the end of the array: attendance.slice(i).
Chunk_NoLimit(attendance, i) == SubSeq(attendance, i + 1, Len(attendance))

\* attendance.slice(i, i + BATCH_SIZE), i counted from 0.
Chunk(attendance, i) ==
    SubSeq(attendance, i + 1, IF i + BATCH_SIZE < Len(attendance) THEN i + BATCH_SIZE ELSE Len(attendance))

\* The store after the merge writes sets ([id, data]) to a collection, in
\* their order: a key holds the fields of the last write under it over
\* those it had before (the writes under one key have the same fields).
WriteAll(store, col, sets) ==
    LET keys == { sets[j].id : j \in 1..Len(sets) }
        last == [k \in keys |->
                    LET at == { j \in 1..Len(sets) : sets[j].id = k }
                    IN  CHOOSE j \in at : \A m \in at : m <= j]
    IN  [store EXCEPT ![col] =
            [k \in (DOMAIN @) \cup keys |->
                IF k \notin keys THEN @[k]
                ELSE IF k \in DOMAIN @ THEN MergeData(@[k], sets[last[k]].data)
                ELSE sets[last[k]].data]]

\* batch.commit() that succeeds: every set operation of the batch is applied.
CommitBatch(store, chunk) ==
    WriteAll(store, "attendance", [j \in 1..Len(chunk) |-> BatchSet(chunk[j])])

\* importBulkAttendance() up to the await of the session writes: the user
\* has confirmed, one merge write per date is issued; failed is the set of
\* dates whose write the store rejects. With a rejected write the import
\* stops with an error.
ImportBulkAttendance(failed) ==
    /\ page = "admin"
    /\ loc = "running"
    /\ bulkImportData # NoImportData
    /\ importRun = NoRun
    /\ failed \subseteq Range(bulkImportData.sessions)
    /\ LET sessions == bulkImportData.sessions
           written == SelectSeq(sessions, LAMBDA d : d \notin failed)
       IN  /\ db' = WriteAll(db, "sessions", [j \in 1..Len(written) |-> ImportedSession(written[j])])
           /\ IF failed = {}
              THEN /\ importRun' = [pc |-> "attendance", i |-> 0, attendance |-> bulkImportData.attendance]
                   /\ importLog' = [outcome |-> "running", records |-> bulkImportData.attendance,
                                    batches |-> << >>]
                   /\ UNCHANGED toast
              ELSE /\ importRun' = NoRun
                   /\ importLog' = [outcome |-> "failed", records |-> bulkImportData.attendance,
                                    batches |-> << >>]
                   /\ toast' = "error"
    /\ UNCHANGED << page, loc, currentUserData, DATA_MODELS, realtimeUnsubscribers, listeners,
                    adminLoad, activityLogs, histVars, report, bulkImportData,
                    deletedSessions, idCounter, STUDENT_DATA, loginVars >>

\* A failing batch.commit() that has applied the first set operation of its
\* batch all the same.
FailedCommit_WritesFirst(store, chunk) == CommitBatch(store, SubSeq(chunk, 1, 1))

\* batch.commit() that fails: no set operation of the batch is applied.
FailedCommit(store, chunk) == store

\* One round of the loop of importBulkAttendance: the next chunk is put
\* into a batch and committed. When the commit fails the import stops with
\* an error.
ImportCommitBatch(ok) ==
    /\ importRun.pc = "attendance"
    /\ importRun.i < Len(importRun.attendance)
    /\ LET chunk == Chunk(importRun.attendance, importRun.i)
       IN  IF ok
           THEN /\ db' = CommitBatch(db, chunk)
                /\ importRun' = [importRun EXCEPT !.i = @ + BATCH_SIZE]
                /\ importLog' = [importLog EXCEPT !.batches = Append(@, chunk)]
                /\ UNCHANGED toast
           ELSE /\ db' = FailedCommit(db, chunk)
                /\ importRun' = NoRun
                /\ importLog' = [importLog EXCEPT !.outcome = "failed"]
                /\ toast' = "error"
    /\ UNCHANGED << page, loc, currentUserData, DATA_MODELS, realtimeUnsubscribers, listeners,
                    adminLoad, activityLogs, histVars, report, bulkImportData,
                    deletedSessions, idCounter, STUDENT_DATA, loginVars >>

\* importBulkAttendance() after its last batch: the success message, the
\* cleanup of window.bulkImportData and the call of loadAllDataForAdmin(),
\* whose reads are then in flight. (The model starts the reads when no
\* other call of loadAllDataForAdmin is in flight.)
ImportSucceeded ==
    /\ importRun.pc = "attendance"
    /\ importRun.i >= Len(importRun.attendance)
    /\ adminLoad = NoLoad
    /\ toast' = "success"
    /\ bulkImportData' = NoImportData
    /\ importLog' = [importLog EXCEPT !.outcome = "succeeded"]
    /\ adminLoad' = FetchAll(db)
    /\ importRun' = [pc |-> "refresh"]
    /\ UNCHANGED << page, loc, currentUserData, db, DATA_MODELS, realtimeUnsubscribers, listeners,
                    activityLogs, histVars, report, deletedSessions, idCounter, STUDENT_DATA, loginVars >>

(***************************************************************************)
(* The specification of the bulk import: the admin dashboard is opened on  *)
(* a store with the students s1 and s2, one attendance file is parsed and  *)
(* imported, and the reads of loadAllDataForAdmin resolve.                 *)
(***************************************************************************)
\* The date of the k-th date column of a file: days 1 to 28 of the months
\* from January 2021 on.
ImportDate(k) ==
    (2021 + (k \div 336)) * 10000 + (1 + ((k \div 28) % 12)) * 100 + (1 + (k % 28))

\* The numbers of date columns of the files.
ImportColumns == { 1, 2, 3, 225, 250 }

\* The files: every row has the cell P in each of its columns; the rows are
\* those of s1, of s1 and s2, or of s1, s2 and a student the mirror does not
\* have; one file whose row of s1 ends before the date column; and one
\* whose row of s2 is one cell shorter than that of s1 (451 records).
ImportFiles ==
    { [dates |-> [k \in 1..n |-> ImportDate(k)],
       rows |-> [i \in 1..Len(ids) |-> [studentId |-> ids[i], cells |-> [k \in 1..n |-> "P"]]]] :
        n \in ImportColumns, ids \in { << "s1" >>, << "s1", "s2" >>, << "s1", "s0", "s2" >> } }
    \cup { [dates |-> << ImportDate(1) >>, rows |-> << [studentId |-> "s1", cells |-> << >>] >>],
            [dates |-> [k \in 1..226 |-> ImportDate(k)],
             rows |-> << [studentId |-> "s1", cells |-> [k \in 1..226 |-> "P"]],
                         [studentId |-> "s2", cells |-> [k \in 1..225 |-> "L"]] >>] }

\* The session writes of an import the store rejects: none, or the one of
\* the first date.
FailedSessionChoices ==
    IF bulkImportData = NoImportData THEN { {} }
    ELSE { {}, { bulkImportData.sessions[1] } }

InitImport ==
    /\ page = "admin"
    /\ OpenedOn(ReportStore([x \in ReportSessionIds |-> "Available"], << >>))

NextImport ==
    \/ \E csv \in ImportFiles : importLog = NoImportLog /\ ParseBulkAttendanceCSV(csv)
    \/ \E failed \in FailedSessionChoices : ImportBulkAttendance(failed)
    \/ \E ok \in BOOLEAN : ImportCommitBatch(ok)
    \/ ImportSucceeded
    \/ \E ok \in BOOLEAN : AdminLoadResolve(ok)

SpecImport == InitImport /\ [][NextImport]_vars

(***************************************************************************)
(* The claims about the mirror and its listeners.                          *)
(***************************************************************************)
\* The documents of a table of the mirror.
MirrorDocs(col) == Range(DATA_MODELS[col])

\* C1: on both dashboards the table of every listened collection is exactly
\* what the last snapshot callback of that collection built: nothing but
\* the callback of the collection changes it.
C1_MirrorIsLastSnapshot ==
    \A c \in Mirrored : DATA_MODELS[c] = lastSnapshot[c]

\* C2: on the faculty dashboard every document of the students,
\* assessments, attendance and scores tables has the classId of the
\* signed-in faculty; the listeners of the faculty dashboard are scoped to
\* that class except the one for the sessions, and the listeners of the
\* admin dashboard are all unscoped.
C2_FacultyMirrorsAreClassScoped ==
    /\ (page = "faculty" /\ loc = "running") =>
          \A c \in ClassScoped : \A d \in MirrorDocs(c) : d.classId = currentUserData.classId
    /\ \A l \in listeners :
          l.filter = IF page = "faculty" /\ l.col \in ClassScoped
                     THEN currentUserData.classId ELSE NoFilter

\* C3: whatever the number of runs of startRealtimeListeners, every
\* collection has at most one listener, and window.realtimeUnsubscribers
\* holds the handles of exactly the listeners that are open, each once.
C3_OneListenerPerCollection ==
    /\ \A c \in Mirrored : Cardinality({ l \in listeners : l.col = c }) <= 1
    /\ Range(realtimeUnsubscribers) = { l.h : l \in listeners }
    /\ Len(realtimeUnsubscribers) = Cardinality(listeners)

\* C3 witness: the faculty dashboard has started its listeners a second
\* time (for class c2, while the table still shows a student of class c1
\* that a listener of the first start delivered) and has five listeners.
C3_Witness ==
    /\ page = "faculty"
    /\ currentUserData.classId = "c2"
    /\ \E d \in MirrorDocs("students") : d.classId = "c1"
    /\ Cardinality(listeners) = Len(ListenedCollections)

\* C4: a listener error is only logged: the step that logs it leaves every
\* table of the mirror, the listeners and their handles and the store as
\* they are; and a snapshot that is processed, also after an error of
\* another collection, replaces the table of its collection.
C4_ErrorIsOnlyLogged ==
    [][ /\ (errorsLogged' # errorsLogged /\ errorsLogged \subseteq errorsLogged') =>
            /\ DATA_MODELS' = DATA_MODELS
            /\ listeners' = listeners
            /\ realtimeUnsubscribers' = realtimeUnsubscribers
            /\ db' = db
            /\ loc' = loc
        /\ \A c \in Mirrored :
            (loc' = "running" /\ lastSnapshot'[c] # lastSnapshot[c]) => DATA_MODELS'[c] = lastSnapshot'[c]
      ]_vars

\* C4 witness: the students listener has reported an error after its
\* snapshot was processed, the students table still holds that snapshot,
\* and another collection has processed a snapshot after the error.
C4_Witness ==
    /\ "students" \in errorsLogged
    /\ DATA_MODELS.students # << >>
    /\ DATA_MODELS.students = lastSnapshot.students
    /\ snapshotAfterError
    /\ DATA_MODELS.sessions # << >>

(***************************************************************************)
(* The claims about the attendance reports.                                *)
(***************************************************************************)
\* The ids of the sessions of the mirror with status Available.
HeldSessionIds ==
    { s.id : s \in { t \in Range(DATA_MODELS.sessions) : t.status = "Available" } }

\* The records of the mirror for a session and a student.
RecordsOf(sessionId, studentId) ==
    { a \in Range(DATA_MODELS.attendance) : a.sessionId = sessionId /\ a.studentId = studentId }

\* The held sessions for which the student has a record Present or Late.
AttendedSessionIds(studentId) ==
    { x \in HeldSessionIds :
        \E a \in RecordsOf(x, studentId) : a.status \in {"Present", "Late"} }

\* C5: the overall matrix has one column per Available session of the
\* mirror and none for a NoClass session, one row per student of the
\* mirror; a cell shows the status of the record of the pair and Absent
\* when there is no record; the percentage of the row of student S is
\* round(P / N * 100), N the number of Available sessions and P the number
\* of those for which S has a record Present or Late.
C5_OverallPercentage ==
    report.kind = "overall" =>
        /\ report.noData <=> (HeldSessionIds = {} \/ Len(DATA_MODELS.students) = 0)
        /\ ~report.noData =>
            /\ Range(report.sessions) = HeldSessionIds
            /\ Len(report.sessions) = Cardinality(HeldSessionIds)
            /\ Len(report.rows) = Len(DATA_MODELS.students)
            /\ { report.rows[i].studentId : i \in DOMAIN report.rows }
                  = { s.studentId : s \in Range(DATA_MODELS.students) }
            /\ \A i \in DOMAIN report.rows :
                 LET row == report.rows[i]
                 IN  /\ row.percentage =
                            JsNum(RoundDiv(100 * Cardinality(AttendedSessionIds(row.studentId)),
                                           Cardinality(HeldSessionIds)))
                     /\ \A j \in DOMAIN row.cells :
                            LET recs == RecordsOf(report.sessions[j], row.studentId)
                            IN  IF recs = {} THEN row.cells[j] = "Absent"
                                ELSE \E a \in recs : row.cells[j] = a.status

\* C5 witness: the matrix of three Available sessions in which s1 is
\* Present once, Late once and has no record once (67%), and s2 has no
\* record at all (0%).
C5_Witness ==
    /\ report.kind = "overall"
    /\ ~report.noData
    /\ Len(report.sessions) = 3
    /\ \E i \in DOMAIN report.rows :
          /\ report.rows[i].studentId = "s1"
          /\ report.rows[i].percentage = JsNum(67)
          /\ \E j, k, l \in DOMAIN report.rows[i].cells :
                /\ report.rows[i].cells[j] = "Present"
                /\ report.rows[i].cells[k] = "Late"
                /\ report.rows[i].cells[l] = "Absent"
                /\ RecordsOf(report.sessions[l], "s1") = {}
    /\ \E i \in DOMAIN report.rows :
          report.rows[i].studentId = "s2" /\ report.rows[i].percentage = JsNum(0)

\* C6: the day-wise report of an Available session puts every student of
\* the mirror in exactly one of the two buckets; the present bucket holds
\* exactly the students whose record for the session is Present; a student
\* of the other bucket is shown with the status of its record, or Absent
\* when it has none.
C6_DaywisePartition ==
    (/\ report.kind = "daywise"
     /\ \E s \in Range(DATA_MODELS.sessions) : s.id = report.sessionId /\ s.status = "Available") =>
        /\ report.outcome = "buckets"
        /\ LET present == { report.presentStudents[i].studentId : i \in DOMAIN report.presentStudents }
               other == { report.absentStudents[i].studentId : i \in DOMAIN report.absentStudents }
           IN  /\ present \cap other = {}
               /\ present \cup other = { s.studentId : s \in Range(DATA_MODELS.students) }
               /\ Cardinality(present) = Len(report.presentStudents)
               /\ Cardinality(other) = Len(report.absentStudents)
               /\ Len(report.presentStudents) + Len(report.absentStudents) = Len(DATA_MODELS.students)
               /\ present = { s.studentId : s \in { t \in Range(DATA_MODELS.students) :
                                 \E a \in RecordsOf(report.sessionId, t.studentId) : a.status = "Present" } }
               /\ \A i \in DOMAIN report.presentStudents : report.presentStudents[i].status = "Present"
               /\ \A i \in DOMAIN report.absentStudents :
                     LET r == report.absentStudents[i]
                         recs == RecordsOf(report.sessionId, r.studentId)
                     IN  /\ r.status # "Present"
                         /\ IF recs = {} THEN r.status = "Absent"
                            ELSE \E a \in recs : r.status = a.status

\* C6 witness: a day-wise report with s1 in the present bucket and s2 in
\* the other bucket with its status Late.
C6_Witness ==
    /\ report.kind = "daywise"
    /\ report.outcome = "buckets"
    /\ report.presentStudents = << [studentId |-> "s1", status |-> "Present"] >>
    /\ report.absentStudents = << [studentId |-> "s2", status |-> "Late"] >>

\* The attendance percentages a rendered view holds.
AttendancePercentages(r) ==
    IF r.kind = "student"
    THEN {r.attendancePercentage} \cup { r.attendanceChart[i].percentage : i \in DOMAIN r.attendanceChart }
    ELSE IF r.kind = "dashboard" THEN {r.avgAttendance}
    ELSE IF r.kind = "analytics"
    THEN { r.faculty[i].avgAttendance : i \in DOMAIN r.faculty }
            \cup { r.chartData[i].value : i \in DOMAIN r.chartData }
    ELSE IF r.kind = "portal"
    THEN {r.perc} \cup { r.attendanceChart[i].percentage : i \in DOMAIN r.attendanceChart }
    ELSE {}

\* The attendance rows the student portal shows for a student: the records
\* of the student in the store whose session exists.
PortalRows(studentId) ==
    { id \in DOMAIN db.attendance :
        /\ db.attendance[id].studentId = studentId
        /\ db.attendance[id].sessionId \in DOMAIN db.sessions }

\* C7: when the mirror has no Available session, every attendance
\* percentage of the student report (with its monthly chart), of the
\* dashboard and of the analytics is the number 0; so is every percentage
\* of the student portal of a student without attendance rows.
C7_NoSessionsGivesZero ==
    /\ (report.kind \in {"student", "dashboard", "analytics"} /\ HeldSessionIds = {}) =>
          AttendancePercentages(report) \subseteq {JsNum(0)}
    /\ (report.kind = "portal" /\ PortalRows(report.studentId) = {}) =>
          AttendancePercentages(report) \subseteq {JsNum(0)}

\* C7 witness: the report of a student while no session is Available, the
\* student having a record Present (for a NoClass session): the count is 1,
\* the number of sessions 0, the percentage 0.
C7_Witness ==
    /\ report.kind = "student"
    /\ HeldSessionIds = {}
    /\ report.totalSessionsHeld = 0
    /\ report.presentCount = 1
    /\ report.attendancePercentage = JsNum(0)

\* The attendance table after the record of a session and a student has
\* been set to a status: the record is replaced, or added when there was
\* none.
WithRecord(attendance, sessionId, studentId, status) ==
    IF \E i \in DOMAIN attendance :
          attendance[i].sessionId = sessionId /\ attendance[i].studentId = studentId
    THEN [i \in DOMAIN attendance |->
             IF attendance[i].sessionId = sessionId /\ attendance[i].studentId = studentId
             THEN [attendance[i] EXCEPT !.status = status]
             ELSE attendance[i]]
    ELSE Append(attendance, [sessionId |-> sessionId, studentId |-> studentId,
                             status |-> status, classId |-> ReportClassOf(studentId)])

\* The mirror with that attendance table, the sessions being the same.
ModelsWithRecord(sessionId, studentId, status) ==
    [DATA_MODELS EXCEPT !.attendance = WithRecord(@, sessionId, studentId, status)]

\* C8: the percentage a student report or a row of the overall matrix
\* shows for student S is not greater than the percentage the same report
\* shows once a record of S, for any session of the mirror, has been added
\* as or changed to Present or Late.
C8_PercentageIsMonotonic ==
    \A x \in { s.id : s \in Range(DATA_MODELS.sessions) }, st \in {"Present", "Late"} :
        /\ report.kind = "student" =>
              StudentReport(ModelsWithRecord(x, report.studentId, st),
                            report.studentId).attendancePercentage.val
                 >= report.attendancePercentage.val
        /\ (report.kind = "overall" /\ ~report.noData) =>
              \A i \in DOMAIN report.rows :
                 OverallAttendanceReport(
                     ModelsWithRecord(x, report.rows[i].studentId, st)).rows[i].percentage.val
                    >= report.rows[i].percentage.val

\* C8 witness: the overall matrix shows 33% for s1, who has a record
\* Absent for an Available session; with that record changed to Late the
\* matrix shows 67%.
C8_Witness ==
    /\ report.kind = "overall"
    /\ ~report.noData
    /\ \E i \in DOMAIN report.rows, x \in HeldSessionIds :
          /\ report.rows[i].studentId = "s1"
          /\ report.rows[i].percentage = JsNum(33)
          /\ \E a \in RecordsOf(x, "s1") : a.status = "Absent"
          /\ OverallAttendanceReport(ModelsWithRecord(x, "s1", "Late")).rows[i].percentage = JsNum(67)

(***************************************************************************)
(* The claims about the scores.                                            *)
(***************************************************************************)
\* The rows a table of score rows has for the assessment of a name.
RowsNamed(rows, name) == { rows[i] : i \in { j \in DOMAIN rows : rows[j].name = name } }

\* C9: a saveScores that succeeds writes, for every input left empty, the
\* record assessmentId_studentId with marks null, whatever the record held
\* before; and what reads the store after it finds null: the next snapshot
\* of the dashboard has the record with marks null, the scores modal shows
\* its input empty, the student report and the student portal show the
\* marks as missing and no percentage.
C9_NullMarksRoundTrip ==
    [][ (report.kind = "scoresModal" /\ report' = NoReport) =>
            \A sid \in DOMAIN report.inputs :
                report.inputs[sid] = "" =>
                    LET a == report.assessmentId
                        k == ScoreDocId(a, sid)
                        name == FindAssessment(DATA_MODELS, a).name
                        after == SettledModels(page, currentUserData.classId, db')
                        portal == PortalReport(FetchStudentData(db', sid), sid)
                    IN  /\ k \in DOMAIN db'.scores
                        /\ db'.scores[k].marks = JsNull
                        /\ db'.scores[k].assessmentId = a
                        /\ db'.scores[k].studentId = sid
                        /\ FindScore(after, a, sid) # JsUndefined
                        /\ FindScore(after, a, sid).marks = JsNull
                        /\ ScoreInputValue(FindScore(after, a, sid)) = ""
                        /\ RowsNamed(StudentReport(after, sid).assessmentRows, name) # {}
                        /\ \A row \in RowsNamed(StudentReport(after, sid).assessmentRows, name) :
                              row.marks = JsStr("N/A") /\ row.percentage = JsStr("N/A")
                        /\ RowsNamed(portal.results, name) # {}
                        /\ \A row \in RowsNamed(portal.results, name) :
                              row.marks = JsStr("Abs") /\ row.percentage = JsStr("-")
      ]_vars

\* C9 witness: a save has succeeded and the store holds the record a1_s1
\* with marks null, while the mirror, whose snapshot has not arrived yet,
\* still shows the number the record held before.
C9_Witness ==
    /\ toast = "success"
    /\ report = NoReport
    /\ ScoreDocId("a1", "s1") \in DOMAIN db.scores
    /\ db.scores[ScoreDocId("a1", "s1")].marks = JsNull
    /\ FindScore(DATA_MODELS, "a1", "s1") # JsUndefined
    /\ FindScore(DATA_MODELS, "a1", "s1").marks = JsNum(40)

\* The mirror without the score records whose marks are null.
WithoutNullScores(models) ==
    [models EXCEPT !.scores = SelectSeq(@, LAMBDA s : s.marks # JsNull)]

\* The score records a student has in the store for assessments that exist.
PortalScores(store, studentId) ==
    { d \in { store.scores[id] : id \in DOMAIN store.scores } :
        d.studentId = studentId /\ d.assessmentId \in DOMAIN store.assessments }

\* C10: a rendered score row of a record with marks m and total T > 0
\* shows round(m / T * 100), and the row of a record with marks null shows
\* the marks as missing and no percentage (student report and student
\* portal); the class assessment chart is the one of the mirror without
\* its records with marks null: null for an assessment without a number,
\* round(m / T * 100) for an assessment with the single number m.
C10_ScorePercentage ==
    [][ /\ (report' # report /\ report'.kind = "analytics") =>
            /\ report'.assessmentData =
                  ClassAssessmentChart(WithoutNullScores(DATA_MODELS'), report'.classId)
            /\ \A a \in Range(DATA_MODELS'.assessments) :
                  LET scored == { s \in Range(DATA_MODELS'.scores) :
                                     s.assessmentId = a.id /\ s.marks # JsNull }
                      points == { report'.assessmentData[i] :
                                     i \in { j \in DOMAIN report'.assessmentData :
                                                report'.assessmentData[j].label = a.name } }
                  IN  \A point \in points :
                         /\ scored = {} => point.value = JsNull
                         /\ \A s \in scored :
                               scored = {s} =>
                                  point.value = JsNum(RoundDiv(100 * s.marks.val, a.totalMarks))
        /\ (report' # report /\ report'.kind = "student") =>
            \A s \in Range(DATA_MODELS'.scores) :
                s.studentId = report'.studentId =>
                    LET a == FindAssessment(DATA_MODELS', s.assessmentId)
                    IN  \E row \in RowsNamed(report'.assessmentRows, a.name) :
                           IF s.marks = JsNull
                           THEN row.marks = JsStr("N/A") /\ row.percentage = JsStr("N/A")
                           ELSE /\ row.marks = s.marks
                                /\ row.percentage = JsNum(RoundDiv(100 * s.marks.val, a.totalMarks))
        /\ (report' # report /\ report'.kind = "portal") =>
            \A s \in PortalScores(db', report'.studentId) :
                \E row \in RowsNamed(report'.results, db'.assessments[s.assessmentId].name) :
                    IF s.marks = JsNull
                    THEN row.marks = JsStr("Abs") /\ row.percentage = JsStr("-")
                    ELSE /\ row.marks = s.marks
                         /\ row.percentage =
                               JsNum(RoundDiv(100 * s.marks.val, db'.assessments[s.assessmentId].totalMarks))
      ]_vars

\* C10 witness: the analytics are rendered on a mirror in which, for the
\* assessment Quiz 1 of total 50, s1 has 40 marks and s2 has marks null:
\* the chart shows 80 for the assessment.
C10_Witness ==
    /\ report.kind = "analytics"
    /\ FindScore(DATA_MODELS, "a1", "s1") # JsUndefined
    /\ FindScore(DATA_MODELS, "a1", "s1").marks = JsNum(40)
    /\ FindScore(DATA_MODELS, "a1", "s2") # JsUndefined
    /\ FindScore(DATA_MODELS, "a1", "s2").marks = JsNull
    /\ FindAssessment(DATA_MODELS, "a1").totalMarks = 50
    /\ \E i \in DOMAIN report.assessmentData :
          report.assessmentData[i] = [label |-> "Quiz 1", value |-> JsNum(80)]

(***************************************************************************)
(* The attendance form (admin.js).                                         *)
(***************************************************************************)
\* The session select is set to sessionId, which it takes when the session is
\* one of its options, and renderAttendanceForm() is called with its value:
\* the change handler of the select, the Take Attendance button of a row of
\* the sessions table, and the switch to the attendance tab.
RenderAttendanceForm(sessionId) ==
    /\ page = "admin"
    /\ loc = "running"
    /\ report' = AttendanceForm(DATA_MODELS, SessionDateValue(DATA_MODELS, sessionId))
    /\ UNCHANGED notReport

\* setAllStatus(status): every select of the form gets the status.
SetAllStatus(status) ==
    /\ report.kind = "attendanceForm"
    /\ report' = [report EXCEPT !.inputs = [sid \in DOMAIN @ |-> status]]
    /\ UNCHANGED notReport

\* saveAttendance(sessionId) of the admin dashboard: without a select an
\* error is shown; otherwise one merge write is issued for every select
\* whose student the mirror has with a classId, and the writes are awaited
\* together (Promise.all); failed is the set of students whose write the
\* store rejects. (updatedAt is left out of the record.)
SaveAttendance(failed) ==
    /\ page = "admin"
    /\ loc = "running"
    /\ report.kind = "attendanceForm"
    /\ LET sessionId == report.sessionId
           issued == { sid \in DOMAIN report.inputs :
                         LET student == FindStudent(DATA_MODELS, sid)
                         IN  student # JsUndefined /\ student.classId # "" }
           written == SetToSeq(issued \ failed)
           toWrite == [i \in 1..Len(written) |->
                         [id |-> AttendanceDocId(sessionId, written[i]),
                          data |-> [sessionId |-> sessionId, studentId |-> written[i],
                                    status |-> report.inputs[written[i]],
                                    classId |-> FindStudent(DATA_MODELS, written[i]).classId]]]
       IN  /\ failed \subseteq issued
           /\ IF DOMAIN report.inputs = {}
              THEN toast' = "error" /\ UNCHANGED db
              ELSE /\ db' = SetDocsMerge(db, "attendance", toWrite)
                   /\ toast' = IF failed = {} THEN "success" ELSE "error"
    /\ UNCHANGED << page, loc, currentUserData, DATA_MODELS, realtimeUnsubscribers,
                    listeners, adminLoad, activityLogs, histVars, report, opVars >>

(***************************************************************************)
(* The login page (auth.js) and logout() (common.js). The sign-out request *)
(* is awaited: authRun holds the function that waits for it.               *)
(***************************************************************************)
\* A logout() that leaves the listeners open.
LogoutBegins_KeepsListeners ==
    /\ page \in Roles
    /\ loc = "running"
    /\ authRun = NoAuthRun
    /\ localStorage' = NoItem
    /\ authRun' = [fn |-> "logout"]
    /\ UNCHANGED << page, loc, currentUserData, db, DATA_MODELS, adminLoad, activityLogs,
                    toast, histVars, report, importVars, sessionVars, STUDENT_DATA,
                    signOutResult, listeners, realtimeUnsubscribers >>

\* logout() up to its await: stopRealtimeListeners(), the removal of
\* currentUser, and the sign-out request.
LogoutBegins ==
    /\ page \in Roles
    /\ loc = "running"
    /\ authRun = NoAuthRun
    /\ LET stopped == StopRealtimeListeners(realtimeUnsubscribers, listeners)
       IN  /\ listeners' = stopped.listeners
           /\ realtimeUnsubscribers' = stopped.unsubs
    /\ localStorage' = NoItem
    /\ authRun' = [fn |-> "logout"]
    /\ UNCHANGED << page, loc, currentUserData, db, DATA_MODELS, adminLoad, activityLogs,
                    toast, histVars, report, importVars, sessionVars, STUDENT_DATA,
                    signOutResult >>

\* getUserRole(uid): the data of the role document, or null when there is
\* none or the read fails (readOk is FALSE).
GetUserRole(store, uid, readOk) ==
    IF readOk /\ uid \in DOMAIN store.userRoles THEN store.userRoles[uid] ELSE JsNull

\* handleUserRole(user) of the login page up to its redirect or to its await
\* of the sign-out request, called by the submit handler of the login form
\* or by the onAuthStateChanged callback (via). A role document with the
\* role admin or faculty: the item is stored and the dashboard is opened;
\* another role: the item is stored, the error is thrown and the catch
\* requests the sign-out; no role: the catch requests the sign-out.
HandleUserRole(uid, readOk, via) ==
    /\ page = "login"
    /\ loc = "running"
    /\ authRun = NoAuthRun
    /\ LET userRoleDoc == GetUserRole(db, uid, readOk)
       IN  IF userRoleDoc = JsNull \/ userRoleDoc.role = ""
           THEN /\ authRun' = [fn |-> "handleUserRole", uid |-> uid, via |-> via]
                /\ UNCHANGED << localStorage, loc >>
           ELSE /\ localStorage' = UserItem(uid, userRoleDoc)
                /\ IF userRoleDoc.role \in Roles
                   THEN loc' = userRoleDoc.role \o ".html" /\ UNCHANGED authRun
                   ELSE authRun' = [fn |-> "handleUserRole", uid |-> uid, via |-> via] /\ UNCHANGED loc
    /\ UNCHANGED << page, currentUserData, db, DATA_MODELS, realtimeUnsubscribers, listeners,
                    adminLoad, activityLogs, toast, histVars, report, importVars,
                    sessionVars, STUDENT_DATA, signOutResult >>

\* The sign-out request settles (ok: it succeeded). logout() catches a
\* failure and redirects to the login page in either case. The catch of
\* handleUserRole() goes on after a success: currentUser is removed and the
\* error is shown; a failure is thrown out of the catch, to the submit
\* handler, which shows an error, or to the onAuthStateChanged callback,
\* which does not catch it.
SignOutSettles(ok) ==
    /\ authRun # NoAuthRun
    /\ authRun' = NoAuthRun
    /\ signOutResult' = IF ok THEN "ok" ELSE "failed"
    /\ IF authRun.fn = "logout"
       THEN /\ Redirected
            /\ UNCHANGED localStorage
       ELSE /\ localStorage' = IF ok THEN NoItem ELSE localStorage
            /\ toast' = IF ok \/ authRun.via = "submit" THEN "error" ELSE toast
            /\ UNCHANGED << loc, currentUserData, DATA_MODELS, realtimeUnsubscribers, listeners,
                            adminLoad, histVars, report, importVars >>
    /\ UNCHANGED << page, db, activityLogs, sessionVars, STUDENT_DATA >>

(***************************************************************************)
(* The specification of the login page: index.html is opened, with or      *)
(* without a currentUser item left by an earlier visit; users sign in, one *)
(* after the other; the role read and the sign-out request may fail.       *)
(***************************************************************************)
\* The role documents of the store: those of the seed store, one with the
\* role student and one without a role.
LoginStore ==
    [SeedStore EXCEPT !.userRoles = @ @@ ( "uStud" :> [role |-> "student", classId |-> ""] )
                                      @@ ( "uBlank" :> [role |-> "", classId |-> ""] )]

\* The users that sign in: with each kind of role document, and without one.
LoginUsers == { "uAdmin", "uFac1", "uStud", "uBlank", "uNone" }

\* The currentUser items an earlier visit has left: none, the one of uAdmin
\* or the one of uFac1.
LeftItems ==
    { NoItem } \cup { UserItem(uid, SeedStore.userRoles[uid]) : uid \in { "uAdmin", "uFac1" } }

InitLogin ==
    /\ page = "login"
    /\ loc = "running"
    /\ currentUserData = NoUser
    /\ db = LoginStore
    /\ DATA_MODELS = EmptyModels(page)
    /\ realtimeUnsubscribers = << >>
    /\ listeners = {}
    /\ adminLoad = NoLoad
    /\ activityLogs = << >>
    /\ toast = NoToast
    /\ lastSnapshot = [c \in Mirrored |-> << >>]
    /\ errorsLogged = {}
    /\ snapshotAfterError = FALSE
    /\ report = NoReport
    /\ bulkImportData = NoImportData
    /\ importRun = NoRun
    /\ importLog = NoImportLog
    /\ deletedSessions = {}
    /\ idCounter = 0
    /\ STUDENT_DATA = NoStudentData
    /\ localStorage \in LeftItems
    /\ authRun = NoAuthRun
    /\ signOutResult = "none"

NextLogin ==
    \/ \E uid \in LoginUsers, readOk \in BOOLEAN, via \in { "submit", "onAuthStateChanged" } :
          HandleUserRole(uid, readOk, via)
    \/ \E ok \in BOOLEAN : SignOutSettles(ok)

SpecLogin == InitLogin /\ [][NextLogin]_vars

(***************************************************************************)
(* The specification of the logout: a dashboard is opened with its         *)
(* listeners started; students are saved and deleted, the admin panel is   *)
(* loaded, snapshots arrive, and the logout button is clicked; the         *)
(* sign-out request may fail.                                              *)
(***************************************************************************)
InitLogout ==
    /\ page \in Roles
    /\ OpenedOn(SeedStore)

NextLogout ==
    \/ LogoutBegins
    \/ \E ok \in BOOLEAN : SignOutSettles(ok)
    \/ \E l \in listeners : Snapshot(l)
    \/ \E sid \in DOMAIN SeedStore.students, ok \in BOOLEAN : DeleteStudent(sid, ok)
    \/ \E sid \in DOMAIN SeedStore.students, cid \in ClassIds, ok \in BOOLEAN :
          SaveStudent(sid, cid, sid, ok)
    \/ AdminPanelTabClick
    \/ \E ok \in BOOLEAN : AdminLoadResolve(ok)

SpecLogout == InitLogout /\ [][NextLogout]_vars

(***************************************************************************)
(* The student id migration (admin.js).                                    *)
(***************************************************************************)
\* str.endsWith(suffix)
EndsWith(str, suffix) ==
    /\ Len(str) >= Len(suffix)
    /\ SubSeq(str, Len(str) - Len(suffix) + 1, Len(str)) = suffix

\* str.replace(pattern, by) for a string pattern: the first occurrence of
\* the pattern is replaced, a string without one is returned as it is.
ReplaceFirst(str, pattern, by) ==
    LET at == { i \in 1..(Len(str) - Len(pattern) + 1) :
                  SubSeq(str, i, i + Len(pattern) - 1) = pattern }
        first == CHOOSE i \in at : \A j \in at : i <= j
    IN  IF at = {} THEN str
        ELSE SubSeq(str, 1, first - 1) \o by \o SubSeq(str, first + Len(pattern), Len(str))

\* The operations runStudentIdMigration puts into its batch for a collection:
\* for every document whose studentId is newId and whose key ends in _oldId,
\* in the order of the query, a set of the data under the replaced key and a
\* delete of the document.
MigrationOps(store, col, oldId, newId) ==
    LET docs == QuerySnapshot([store EXCEPT ![col] =
                                  [id \in { k \in DOMAIN @ : @[k].studentId = newId } |-> @[id]]],
                              col, NoFilter)
        hits == SelectSeq(docs, LAMBDA d : EndsWith(d.id, "_" \o oldId))
    IN  [i \in 1..(2 * Len(hits)) |->
            LET d == hits[(i + 1) \div 2]
            IN  IF i % 2 = 1
                THEN [op |-> "set", col |-> col,
                      id |-> ReplaceFirst(d.id, "_" \o oldId, "_" \o newId),
                      data |-> [d.data EXCEPT !.studentId = newId]]
                ELSE [op |-> "delete", col |-> col, id |-> d.id]]

RECURSIVE ApplyBatch(_, _)
\* A batch that is committed: its operations are applied in their order.
ApplyBatch(store, ops) ==
    IF Len(ops) = 0 THEN store
    ELSE ApplyBatch(IF ops[1].op = "set"
                    THEN SetDoc(store, ops[1].col, ops[1].id, ops[1].data)
                    ELSE DeleteDoc(store, ops[1].col, ops[1].id),
                    Tail(ops))

\* The batch of runStudentIdMigration: the operations for the attendance,
\* those for the scores, and the delete of students/oldId.
MigrationBatch(store, oldId, newId) ==
    MigrationOps(store, "attendance", oldId, newId)
        \o MigrationOps(store, "scores", oldId, newId)
        \o << [op |-> "delete", col |-> "students", id |-> oldId] >>

\* runStudentIdMigration(), confirmed by the user: without one of the ids an
\* error is shown; otherwise the batch is built from two reads and committed
\* (ok: the commit succeeds), and after a success loadAllDataForAdmin() is
\* called.
RunStudentIdMigration(oldId, newId, ok) ==
    /\ page = "admin"
    /\ loc = "running"
    /\ adminLoad = NoLoad
    /\ IF oldId = "" \/ newId = "" \/ ~ok
       THEN /\ toast' = "error"
            /\ UNCHANGED << db, adminLoad >>
       ELSE /\ db' = ApplyBatch(db, MigrationBatch(db, oldId, newId))
            /\ toast' = "success"
            /\ adminLoad' = FetchAll(db')
    /\ UNCHANGED << page, loc, currentUserData, DATA_MODELS, realtimeUnsubscribers, listeners,
                    activityLogs, histVars, report, opVars >>

(***************************************************************************)
(* The specification of the migration: the admin dashboard is opened on a  *)
(* store in which the records of student s1 still have keys that end in    *)
(* the earlier id o1; attendance is saved from the form, the migration is  *)
(* run, and snapshots arrive, in any interleaving.                         *)
(***************************************************************************)
MigrationStore ==
    [SeedStore EXCEPT
        !.students = @ @@ ( "o1" :> [studentId |-> "o1", classId |-> "c1"] ),
        !.attendance =
            ( AttendanceDocId("x1", "o1") :>
                [sessionId |-> "x1", studentId |-> "s1", status |-> "Late", classId |-> "c1"] ) @@
            ( AttendanceDocId("x1", "s2") :>
                [sessionId |-> "x1", studentId |-> "s2", status |-> "Late", classId |-> "c2"] ),
        !.scores =
            ( ScoreDocId("a1", "o1") :>
                [assessmentId |-> "a1", studentId |-> "s1", marks |-> JsNum(40), classId |-> "c1"] ) @@
            ( ScoreDocId("a2", "s2") :>
                [assessmentId |-> "a2", studentId |-> "s2", marks |-> JsNull, classId |-> "c2"] )]

\* The values of the two id fields of the migration form.
MigrationOldIds == { "o1", "s2", "" }
MigrationNewIds == { "s1", "s2" }

InitMigration ==
    /\ page = "admin"
    /\ OpenedOn(MigrationStore)

NextMigration ==
    \/ \E oldId \in MigrationOldIds, newId \in MigrationNewIds, ok \in BOOLEAN :
          RunStudentIdMigration(oldId, newId, ok)
    \/ RenderAttendanceForm("x1")
    \/ SaveAttendance({})
    \/ AdminLoadResolve(TRUE)
    \/ \E l \in listeners : l.col \in { "students", "attendance", "scores" } /\ Snapshot(l)

SpecMigration == InitMigration /\ [][NextMigration]_vars

(***************************************************************************)
(* The specification of the attendance form: the admin dashboard is opened *)
(* on a store with three Available sessions and no attendance record; the  *)
(* form of a session is rendered, its selects are set and saved, students  *)
(* are deleted from the students table, and the listeners deliver          *)
(* snapshots, in any interleaving; a write may be rejected.                *)
(***************************************************************************)
\* The session the form is rendered for.
FormSessionId == "x1"

\* The student that is deleted.
FormDeletedStudentId == "s2"

\* The writes of a save the store rejects: none, or the one for s1.
FormFailures == { {}, { "s1" } }

InitForm ==
    /\ page = "admin"
    /\ OpenedOn(ReportStore([x \in ReportSessionIds |-> "Available"], << >>))

NextForm ==
    \/ RenderAttendanceForm(FormSessionId)
    \/ SetAllStatus("Absent")
    \/ \E failed \in FormFailures : SaveAttendance(failed)
    \/ \E ok \in BOOLEAN : DeleteStudent(FormDeletedStudentId, ok)
    \/ \E l \in listeners : l.col \in { "students", "attendance" } /\ Snapshot(l)

SpecForm == InitForm /\ [][NextForm]_vars

(***************************************************************************)
(* The specification of the record writers: the admin dashboard is opened  *)
(* on a store without attendance records; attendance is saved from the     *)
(* form, a file is imported, scores are saved, and the listeners deliver   *)
(* snapshots, in any interleaving; each write of a save may be rejected.   *)
(***************************************************************************)
\* The file: one date column, the rows of s1 (L) and s2 (empty cell).
RecordsFile ==
    [dates |-> << ImportDate(1) >>,
     rows |-> << [studentId |-> "s1", cells |-> << "L" >>],
                 [studentId |-> "s2", cells |-> << "" >>] >>]

\* The session the form is rendered for: the session of the date of the
\* file, which the mirror has once the import has written it.
RecordsSessionId == SessionIdOfDate(ImportDate(1))

\* The writes of a save the store rejects: none, or the one for s2.
RecordsFailures == { {}, { "s2" } }

InitRecords ==
    /\ page = "admin"
    /\ OpenedOn(ReportStore([x \in ReportSessionIds |-> "Available"], << >>))

NextRecords ==
    \/ RenderAttendanceForm(RecordsSessionId)
    \/ SetAllStatus("Absent")
    \/ \E failed \in RecordsFailures : SaveAttendance(failed)
    \/ importLog = NoImportLog /\ ParseBulkAttendanceCSV(RecordsFile)
    \/ ImportBulkAttendance({})
    \/ \E ok \in BOOLEAN : ImportCommitBatch(ok)
    \/ ImportSucceeded
    \/ AdminLoadResolve(TRUE)
    \/ OpenScoresModal("a1")
    \/ TypeScore("s1", "1")
    \/ \E failed \in RecordsFailures : SaveScores(failed)
    \/ \E l \in listeners : l.col \in { "sessions", "attendance" } /\ Snapshot(l)

SpecRecords == InitRecords /\ [][NextRecords]_vars

(***************************************************************************)
(* The sessions (admin.js).                                                *)
(***************************************************************************)
\* generateId(): Date.now().toString(36) + Math.random().toString(36).substr(2),
\* an id no earlier call has returned; n is the number of earlier calls.
GenerateId(n) == "g" \o ToString(n + 1)

\* DATA_MODELS.sessions.some(s => s.date === date)
SessionExists(models, date) ==
    \E i \in DOMAIN models.sessions : models.sessions[i].date = date

\* saveSession(): date and status are the fields of the form (date 0 is
\* the empty field). Without a date, or with a session of the date in the
\* mirror, an error is shown; otherwise the session is written under a
\* generated id with setDoc. ok tells whether the store accepts the write.
\* (createdAt is left out.)
SaveSession(date, status, ok) ==
    /\ page = "admin"
    /\ loc = "running"
    /\ IF date = 0 \/ SessionExists(DATA_MODELS, date)
       THEN /\ toast' = "error"
            /\ UNCHANGED << db, activityLogs, idCounter >>
       ELSE /\ idCounter < MaxSessionOps
            /\ idCounter' = idCounter + 1
            /\ LET session == [id |-> GenerateId(idCounter), date |-> date, status |-> status,
                               noClassReason |-> IF status = "NoClass" THEN JsStr("Holiday")
                                                 ELSE JsNull]
               IN  IF ok
                   THEN /\ db' = SetDoc(db, "sessions", session.id, session)
                        /\ activityLogs' = CreateAuditLog(activityLogs, "session_created")
                        /\ toast' = "success"
                   ELSE /\ toast' = "error"
                        /\ UNCHANGED << db, activityLogs >>
    /\ UNCHANGED << page, loc, currentUserData, DATA_MODELS, realtimeUnsubscribers, listeners,
                    adminLoad, histVars, report, importVars, importLog, deletedSessions,
                    STUDENT_DATA, loginVars >>

\* deleteSession(sessionId), confirmed by the user, for a row of the table
\* rendered from the mirror. deletedSessions keeps the ids of the sessions
\* whose deletion the store has accepted.
DeleteSession(sessionId, ok) ==
    /\ page = "admin"
    /\ loc = "running"
    /\ \E i \in DOMAIN DATA_MODELS.sessions : DATA_MODELS.sessions[i].id = sessionId
    /\ IF ok
       THEN /\ Len(activityLogs) < MaxSessionOps
            /\ db' = DeleteDoc(db, "sessions", sessionId)
            /\ activityLogs' = CreateAuditLog(activityLogs, "session_deleted")
            /\ deletedSessions' = deletedSessions \cup { sessionId }
            /\ toast' = "success"
       ELSE /\ toast' = "error"
            /\ UNCHANGED << db, activityLogs, deletedSessions >>
    /\ UNCHANGED << page, loc, currentUserData, DATA_MODELS, realtimeUnsubscribers, listeners,
                    adminLoad, histVars, report, importVars, importLog, idCounter,
                    STUDENT_DATA, loginVars >>

(***************************************************************************)
(* The specification of the sessions: the admin dashboard is opened on a   *)
(* store with one session; sessions are saved and deleted, a file with a   *)
(* date column is imported, and the sessions listener delivers snapshots.  *)
(***************************************************************************)
\* The file: one date column and the row of s1.
SessionsFile ==
    [dates |-> << ImportDate(1) >>,
     rows |-> << [studentId |-> "s1", cells |-> << "P" >>] >>]

\* The dates of the form: none, the date of the file, and the date of a
\* session of the store.
SessionDateInputs == { 0, ImportDate(1), ReportSessionDates["x1"] }

\* The store: the one with the students and without attendance records,
\* with the session x1 only.
SessionsStore ==
    [ReportStore([x \in ReportSessionIds |-> "Available"], << >>) EXCEPT
        !.sessions = [x \in { "x1" } |-> @[x]]]

InitSessions ==
    /\ page = "admin"
    /\ OpenedOn(SessionsStore)

NextSessions ==
    \/ \E date \in SessionDateInputs, status \in SessionStatuses, ok \in BOOLEAN :
          SaveSession(date, status, ok)
    \/ \E sessionId \in { x.id : x \in Range(DATA_MODELS.sessions) }, ok \in BOOLEAN :
          DeleteSession(sessionId, ok)
    \/ ParseBulkAttendanceCSV(SessionsFile)
    \/ \E failed \in FailedSessionChoices : ImportBulkAttendance(failed)
    \/ \E ok \in BOOLEAN : ImportCommitBatch(ok)
    \/ ImportSucceeded
    \/ AdminLoadResolve(TRUE)
    \/ \E l \in listeners : l.col = "sessions" /\ Snapshot(l)

SpecSessions == InitSessions /\ [][NextSessions]_vars

(***************************************************************************)
(* The classes and the user roles (admin.js).                              *)
(***************************************************************************)
\* saveClass(): without a class id or a name an error is shown; otherwise
\* the name is written with merge, the log entry is created and
\* loadAllDataForAdmin() is called, whose reads are then in flight. ok
\* tells whether the store accepts the write. (The model starts the reads
\* when no other call of loadAllDataForAdmin is in flight.)
SaveClass(classId, className, ok) ==
    /\ page = "admin"
    /\ loc = "running"
    /\ IF classId = "" \/ className = ""
       THEN /\ toast' = "error"
            /\ UNCHANGED << db, activityLogs, adminLoad >>
       ELSE IF ok
       THEN /\ Len(activityLogs) < MaxLogs
            /\ adminLoad = NoLoad
            /\ db' = SetDocMerge(db, "classes", classId, [name |-> className])
            /\ activityLogs' = CreateAuditLog(activityLogs, "class_saved")
            /\ adminLoad' = FetchAll(db')
            /\ toast' = "success"
       ELSE /\ toast' = "error"
            /\ UNCHANGED << db, activityLogs, adminLoad >>
    /\ UNCHANGED << page, loc, currentUserData, DATA_MODELS, realtimeUnsubscribers, listeners,
                    histVars, report, opVars >>

\* await setDoc(doc(window.db, 'userRoles', uid), roleData)
WriteUserRole(store, uid, roleData) == SetDoc(store, "userRoles", uid, roleData)

\* saveUserRole(): email is the answer to the prompt. Without an email, a
\* uid or a role, or without a class for a faculty, an error is shown;
\* otherwise the role, the email and, for a faculty, the class are written
\* with setDoc, the log entry is created and loadAllDataForAdmin() is
\* called. ok tells whether the store accepts the write.
SaveUserRole(uid, role, classId, email, ok) ==
    /\ page = "admin"
    /\ loc = "running"
    /\ LET roleData == IF role = "faculty"
                       THEN [role |-> role, email |-> email, classId |-> classId]
                       ELSE [role |-> role, email |-> email]
       IN  IF email = "" \/ uid = "" \/ role = "" \/ (role = "faculty" /\ classId = "")
           THEN /\ toast' = "error"
                /\ UNCHANGED << db, activityLogs, adminLoad >>
           ELSE IF ok
           THEN /\ Len(activityLogs) < MaxLogs
                /\ adminLoad = NoLoad
                /\ db' = WriteUserRole(db, uid, roleData)
                /\ activityLogs' = CreateAuditLog(activityLogs, "user_role_updated")
                /\ adminLoad' = FetchAll(db')
                /\ toast' = "success"
           ELSE /\ toast' = "error"
                /\ UNCHANGED << db, activityLogs, adminLoad >>
    /\ UNCHANGED << page, loc, currentUserData, DATA_MODELS, realtimeUnsubscribers, listeners,
                    histVars, report, opVars >>

(***************************************************************************)
(* The specification of the saves: the admin dashboard is opened on the    *)
(* seeded store; students, sessions, classes, user roles and the scores of *)
(* an assessment are saved, the reads of loadAllDataForAdmin resolve and   *)
(* the listeners of the students and the sessions deliver snapshots.       *)
(***************************************************************************)
InitSaves ==
    /\ page = "admin"
    /\ OpenedOn(SeedStore)

NextSaves ==
    \/ \E studentIdInput \in { "", "s1", "s3" }, classIdInput \in { "", "c2" },
          hiddenId \in { "", "s1" }, ok \in BOOLEAN :
          SaveStudent(studentIdInput, classIdInput, hiddenId, ok)
    \/ \E date \in { 0, ImportDate(1), SeedStore.sessions["x1"].date },
          status \in SessionStatuses, ok \in BOOLEAN : SaveSession(date, status, ok)
    \/ \E classId \in { "", "c1", "c3" }, className \in { "", "Class A" }, ok \in BOOLEAN :
          SaveClass(classId, className, ok)
    \/ \E uid \in { "", "uFac1", "uNew" }, role \in { "", "admin", "faculty" },
          classId \in { "", "c2" }, email \in { "", "f@sjc" }, ok \in BOOLEAN :
          SaveUserRole(uid, role, classId, email, ok)
    \/ OpenScoresModal("a1")
    \/ \E value \in { "1", "60" } : TypeScore("s1", value)
    \/ SaveScores({})
    \/ \E ok \in BOOLEAN : AdminLoadResolve(ok)
    \/ \E l \in listeners : l.col \in { "students", "sessions" } /\ Snapshot(l)

SpecSaves == InitSaves /\ [][NextSaves]_vars

(***************************************************************************)
(* The specification of the deletions: the admin dashboard is opened on a  *)
(* store with three held sessions and attendance records of them; sessions *)
(* are deleted, the listeners of the sessions and the attendance deliver   *)
(* snapshots, and the reports are rendered.                                *)
(***************************************************************************)
\* The attendance records of the store: s1 has attended the three sessions,
\* s2 was late for x1 and absent from x2.
DeletionsAttendance ==
    ( << "x1", "s1" >> :> "Present" ) @@ ( << "x2", "s1" >> :> "Present" ) @@
    ( << "x3", "s1" >> :> "Late" ) @@ ( << "x1", "s2" >> :> "Late" ) @@
    ( << "x2", "s2" >> :> "Absent" )

InitDeletions ==
    /\ page = "admin"
    /\ OpenedOn(ReportStore([x \in ReportSessionIds |-> "Available"], DeletionsAttendance))

NextDeletions ==
    \/ \E sessionId \in ReportSessionIds, ok \in BOOLEAN : DeleteSession(sessionId, ok)
    \/ \E l \in listeners : l.col \in { "sessions", "attendance" } /\ Snapshot(l)
    \/ GenerateOverallAttendanceReport
    \/ \E studentId \in ReportStudentIds : GenerateStudentReport(studentId)
    \/ RenderDashboard
    \/ RenderAdminAnalytics("")

SpecDeletions == InitDeletions /\ [][NextDeletions]_vars

(***************************************************************************)
(* The claims about the bulk attendance import.                            *)
(***************************************************************************)
\* The number of batches of n records: n / 450 rounded up.
BatchesNeeded(n) == (n + 449) \div 450

\* The records of the batches the import has committed, in their order.
CommittedRecords == Flatten(importLog.batches)

\* The store holds the record under the key sessionId_studentId.
Stored(record) ==
    LET key == record.sessionId \o "_" \o record.studentId
    IN  /\ key \in DOMAIN db.attendance
        /\ db.attendance[key] = record

\* C11: importBulkAttendance commits its n records in batches that follow
\* the order of the input: the k-th batch is the records 450(k-1)+1 to
\* min(450k, n), so no batch has more than 450 records and every record is
\* in exactly one batch; an import that succeeds has committed n/450
\* (rounded up) batches, which together are the n records, all in the store.
C11_ImportBatches ==
    importLog.outcome # "none" =>
        LET records == importLog.records
            n == Len(records)
            batches == importLog.batches
        IN  /\ Len(batches) <= BatchesNeeded(n)
            /\ \A k \in 1..Len(batches) :
                  /\ Len(batches[k]) >= 1
                  /\ Len(batches[k]) <= 450
                  /\ batches[k] = SubSeq(records, 450 * (k - 1) + 1,
                                         IF 450 * k < n THEN 450 * k ELSE n)
            /\ importLog.outcome = "succeeded" =>
                  /\ Len(batches) = BatchesNeeded(n)
                  /\ CommittedRecords = records
                  /\ \A j \in 1..n : Stored(records[j])

\* C11 witness: an import of 500 records has succeeded with a batch of 450
\* records and a batch of 50.
C11_Witness ==
    /\ importLog.outcome = "succeeded"
    /\ Len(importLog.records) = 500
    /\ Len(importLog.batches) = 2
    /\ Len(importLog.batches[1]) = 450
    /\ Len(importLog.batches[2]) = 50

\* C12: the chunks are committed one after the other, each on its own: the
\* step in which the commit of a chunk fails writes nothing to the store,
\* and the records of the chunks committed before it are in the store
\* after it.
C12_FailedChunkWritesNothing ==
    [][ (importRun.pc = "attendance" /\ importLog'.outcome = "failed") =>
            /\ db' = db
            /\ importLog'.batches = importLog.batches
            /\ \A k \in 1..Len(importLog.batches) :
                  \A j \in 1..Len(importLog.batches[k]) :
                      LET record == importLog.batches[k][j]
                          key == record.sessionId \o "_" \o record.studentId
                      IN  key \in DOMAIN db'.attendance /\ db'.attendance[key] = record
      ]_vars

\* C12 witness: the commit of the second chunk of an import has failed
\* after the first chunk of 450 records was committed, and the store holds
\* 450 attendance records.
C12_Witness ==
    /\ importLog.outcome = "failed"
    /\ Len(importLog.records) > 450
    /\ Len(importLog.batches) = 1
    /\ Cardinality(DOMAIN db.attendance) = 450

(***************************************************************************)
(* The claims about the attendance and the score records.                  *)
(***************************************************************************)
\* C13: whatever the interleaving of saveAttendance, the bulk import and
\* saveScores, every attendance document of the store is under the key
\* sessionId_studentId of its fields and every score document under
\* assessmentId_studentId, so no two documents of a collection are of the
\* same pair: saving a pair again writes to the document it has.
C13_OneRecordPerPair ==
    /\ \A k \in DOMAIN db.attendance :
          k = db.attendance[k].sessionId \o "_" \o db.attendance[k].studentId
    /\ \A k \in DOMAIN db.scores :
          k = db.scores[k].assessmentId \o "_" \o db.scores[k].studentId
    /\ \A k1, k2 \in DOMAIN db.attendance :
          (/\ db.attendance[k1].sessionId = db.attendance[k2].sessionId
           /\ db.attendance[k1].studentId = db.attendance[k2].studentId) => k1 = k2
    /\ \A k1, k2 \in DOMAIN db.scores :
          (/\ db.scores[k1].assessmentId = db.scores[k2].assessmentId
           /\ db.scores[k1].studentId = db.scores[k2].studentId) => k1 = k2

\* C13 witness: the import has written the record of s1 for the session of
\* the file (Late), the mirror has received it, and saveAttendance has
\* saved the pair again (Absent); the score of s1 in a1 was saved again
\* (1 instead of 40). The store has one document for each pair.
C13_Witness ==
    /\ \E a \in Range(DATA_MODELS.attendance) :
          a.sessionId = RecordsSessionId /\ a.studentId = "s1" /\ a.status = "Late"
    /\ { k \in DOMAIN db.attendance : db.attendance[k].studentId = "s1" } =
          { RecordsSessionId \o "_s1" }
    /\ db.attendance[RecordsSessionId \o "_s1"].status = "Absent"
    /\ { k \in DOMAIN db.scores : db.scores[k].studentId = "s1" } = { "a1_s1" }
    /\ db.scores["a1_s1"].marks = JsNum(1)

\* C20: the writes of a save of several records are applied all or none: a
\* step of saveAttendance that changes the attendance collection leaves
\* the record of every select of the form in the store, and a step of
\* saveScores that changes the scores collection leaves the record of
\* every input of the modal in the store.
C20_SavesAreAtomic ==
    [][ /\ (/\ report.kind = "attendanceForm"
            /\ importRun' = importRun
            /\ db'.attendance # db.attendance) =>
               \A sid \in DOMAIN report.inputs :
                   LET key == report.sessionId \o "_" \o sid
                   IN  /\ key \in DOMAIN db'.attendance
                       /\ db'.attendance[key].status = report.inputs[sid]
        /\ (/\ report.kind = "scoresModal"
            /\ db'.scores # db.scores) =>
               \A sid \in DOMAIN report.inputs :
                   LET key == report.assessmentId \o "_" \o sid
                   IN  /\ key \in DOMAIN db'.scores
                       /\ db'.scores[key].marks = ParseMarks(report.inputs[sid])
      ]_vars

(***************************************************************************)
(* The claims about the sessions.                                          *)
(***************************************************************************)
\* C14: whatever the interleaving of saveSession and the bulk import, also
\* when a save is issued before the snapshot of an earlier save has reached
\* the mirror, no two session documents of the store have the same date.
C14_OneSessionPerDate ==
    \A k1, k2 \in DOMAIN db.sessions :
        db.sessions[k1].date = db.sessions[k2].date => k1 = k2

\* C19: the status of a session of the store is Available or NoClass, and
\* the deletion of a session is final: no session whose deletion the store
\* has accepted is in the store again.
C19_SessionLifecycle ==
    \A k \in DOMAIN db.sessions :
        /\ db.sessions[k].status \in { "Available", "NoClass" }
        /\ k \notin deletedSessions

(***************************************************************************)
(* The claims about the student portal.                                    *)
(***************************************************************************)
\* C15: no step of the student portal changes the store (the portal only
\* reads), and what the portal holds in STUDENT_DATA after its load is of
\* the logged-in student only: every attendance entry has the studentId of
\* the student, and the score entries (which keep the marks and the name,
\* date and total of the assessment) are those of the student's score
\* documents, one per document.
C15_PortalReadsOwnRecords ==
    [][ page = "student" =>
            /\ db' = db
            /\ activityLogs' = activityLogs
            /\ STUDENT_DATA' # STUDENT_DATA =>
                  LET studentId == report'.studentId
                      own == PortalScores(db', studentId)
                  IN  /\ \A i \in DOMAIN STUDENT_DATA'.attendance :
                            STUDENT_DATA'.attendance[i].studentId = studentId
                      /\ Len(STUDENT_DATA'.scores) = Cardinality(own)
                      /\ \A i \in DOMAIN STUDENT_DATA'.scores :
                            \E d \in own :
                                /\ STUDENT_DATA'.scores[i].marks = d.marks
                                /\ STUDENT_DATA'.scores[i].assessmentName =
                                      db'.assessments[d.assessmentId].name
                                /\ STUDENT_DATA'.scores[i].totalMarks =
                                      db'.assessments[d.assessmentId].totalMarks
      ]_vars

\* C15 witness: the portal of s1 has loaded an attendance record and a
\* score of s1 from a store that also has an attendance record and a score
\* of s2.
C15_Witness ==
    /\ page = "student"
    /\ report.kind = "portal"
    /\ report.studentId = "s1"
    /\ Len(STUDENT_DATA.attendance) >= 1
    /\ Len(STUDENT_DATA.scores) = 1
    /\ \E k \in DOMAIN db.attendance : db.attendance[k].studentId = "s2"
    /\ \E k \in DOMAIN db.scores : db.scores[k].studentId = "s2"

(***************************************************************************)
(* The claims about the saves.                                             *)
(***************************************************************************)
\* The collections of the single-entity saves.
SavedCollections == { "students", "sessions", "assessments", "classes", "userRoles" }

\* The fields the save of a collection has in its payload, told from the
\* document after the save: saveUserRole writes the class of a faculty only.
PayloadFields(col, after) ==
    IF col = "students" THEN { "studentId", "classId" }
    ELSE IF col = "classes" THEN { "name" }
    ELSE IF col = "userRoles"
    THEN (IF "role" \in DOMAIN after /\ after.role = "faculty"
          THEN { "role", "email", "classId" } ELSE { "role", "email" })
    ELSE { "id", "date", "status", "noClassReason", "name", "totalMarks", "classId" }

\* C16: every save of a student, a session, an assessment, a class or a
\* user role is a merge write: a document that exists before and after a
\* step has every field it had, and the fields that are not in the payload
\* of the save have the value they had.
C16_SavesMerge ==
    [][ \A col \in SavedCollections :
            \A k \in (DOMAIN db[col]) \cap (DOMAIN db'[col]) :
                \A f \in DOMAIN db[col][k] :
                    /\ f \in DOMAIN db'[col][k]
                    /\ f \notin PayloadFields(col, db'[col][k]) => db'[col][k][f] = db[col][k][f]
      ]_vars

\* The action of the entry a step appends to the activity log, "" when the
\* step appends none.
LoggedAction ==
    IF Len(activityLogs') = Len(activityLogs) + 1
    THEN activityLogs'[Len(activityLogs')].action ELSE ""

\* C17: a save with a missing required field, with a score outside
\* 0..totalMarks, or with an identifier that exists already (the studentId
\* of a new student, the date of a new session) writes nothing: a step that
\* creates a student adds a document under an id the store did not have,
\* with its studentId and classId filled in; a step that creates a session
\* adds no session of a date the store had a session of; and a score
\* document a step writes has marks null or within 0..totalMarks.
C17_InvalidSavesWriteNothing ==
    [][ /\ LoggedAction = "student_created" =>
              /\ \E k \in DOMAIN db'.students : k \notin DOMAIN db.students
              /\ \A k \in DOMAIN db'.students :
                    db'.students[k].studentId # "" /\ db'.students[k].classId # ""
        /\ LoggedAction = "session_created" =>
              \A k \in (DOMAIN db'.sessions) \ (DOMAIN db.sessions) :
                  \A j \in DOMAIN db.sessions : db.sessions[j].date # db'.sessions[k].date
        /\ \A k \in DOMAIN db'.scores :
              (k \notin DOMAIN db.scores \/ db'.scores[k] # db.scores[k]) =>
                  \/ db'.scores[k].marks = JsNull
                  \/ /\ db'.scores[k].marks.val >= 0
                     /\ db'.scores[k].marks.val <= db'.assessments[db'.scores[k].assessmentId].totalMarks
      ]_vars

(***************************************************************************)
(* The claims about the role check.                                        *)
(***************************************************************************)
\* C18: on the admin and the faculty page the only way out of the loading
\* state is an auth callback, and it either initialises the app for a user
\* whose userRoles document has the role of the page, or, when the document
\* is missing or has another role, signs the user out and redirects to the
\* login page with no listener opened and nothing mirrored.
C18_RoleMismatchSignsOut ==
    [][ (page \in Roles /\ loc = "loading") =>
            \/ /\ loc' = "running"
               /\ \E uid \in DOMAIN db.userRoles :
                     db.userRoles[uid] = currentUserData' /\ db.userRoles[uid].role = page
            \/ /\ loc' = "login"
               /\ listeners' = {}
               /\ DATA_MODELS' = EmptyModels(page)
      ]_vars

(***************************************************************************)
(* The claims about failures, the activity log and the reports.            *)
(***************************************************************************)
\* C21: when the commit of a chunk of the bulk import fails and chunks
\* remain, the import goes on: after the step the import is still in its
\* loop, at the chunk after the failed one.
C21_NextChunkIsAttempted ==
    [][ (/\ importRun.pc = "attendance"
         /\ importLog'.batches = importLog.batches
         /\ db' = db
         /\ importRun' # importRun
         /\ importRun.i + BATCH_SIZE < Len(importRun.attendance)) =>
            /\ importRun'.pc = "attendance"
            /\ importRun'.i = importRun.i + BATCH_SIZE
      ]_vars

\* C22: a mutation whose write the store accepts requests an audit-log
\* entry, and one whose write fails requests none: every step that changes
\* the store appends one entry to the activity log, and a step appends an
\* entry only when it changes the store or reports success.
C22_MutationsAreLogged ==
    [][ /\ db' # db => Len(activityLogs') = Len(activityLogs) + 1
        /\ activityLogs' # activityLogs => (db' # db \/ toast' = "success")
      ]_vars

\* The mirror without the attendance records whose session or student it
\* does not have and without the score records whose assessment or student
\* it does not have.
WithoutOrphans(models) ==
    LET HasStudent(id) == \E i \in DOMAIN models.students : models.students[i].studentId = id
    IN  [models EXCEPT
            !.attendance = SelectSeq(@, LAMBDA a :
                               /\ HasStudent(a.studentId)
                               /\ \E i \in DOMAIN models.sessions : models.sessions[i].id = a.sessionId),
            !.scores = SelectSeq(@, LAMBDA s :
                           /\ HasStudent(s.studentId)
                           /\ \E i \in DOMAIN models.assessments :
                                 models.assessments[i].id = s.assessmentId)]

\* C23: an attendance record whose session or student is gone, and a score
\* record whose assessment or student is gone, shows in no report: what a
\* report handler renders is what it would render from the mirror without
\* these records.
C23_OrphansAreNotShown ==
    [][ report' # report =>
            LET shown == WithoutOrphans(DATA_MODELS')
            IN  /\ report'.kind = "student" => report' = StudentReport(shown, report'.studentId)
                /\ report'.kind = "dashboard" => report' = DashboardReport(shown)
                /\ report'.kind = "analytics" => report' = AnalyticsReport(shown, report'.classId)
                /\ report'.kind = "overall" => report' = OverallAttendanceReport(shown)
      ]_vars

\* The number of Present or Late records the mirror holds for a student.
AttendedRecords(models, studentId) ==
    Cardinality({ i \in DOMAIN models.attendance :
                    /\ models.attendance[i].studentId = studentId
                    /\ models.attendance[i].status \in { "Present", "Late" } })

\* The number of Available sessions of the mirror.
HeldSessions(models) ==
    Cardinality({ i \in DOMAIN models.sessions : models.sessions[i].status = "Available" })

\* The arithmetic mean, rounded, of the students' own percentages
\* attended / held * 100, for a non-empty sequence of students and held > 0.
MeanOfPercentages(models, students) ==
    LET attended == [i \in DOMAIN students |-> AttendedRecords(models, students[i].studentId)]
    IN  RoundDiv(100 * SumSeq(attended), HeldSessions(models) * Len(students))

\* The same mean over the students' percentages as they are displayed, each
\* rounded to an integer first.
MeanOfRoundedPercentages(models, students) ==
    LET shown == [i \in DOMAIN students |->
                     RoundDiv(100 * AttendedRecords(models, students[i].studentId),
                              HeldSessions(models))]
    IN  RoundDiv(SumSeq(shown), Len(students))

\* The pooled ratio of the matrix: the Present or Late cells over all the
\* cells, a cell being the first record of a student for an Available session.
PooledRatio(models) ==
    LET cells == { << i, j >> \in (DOMAIN models.students) \X (DOMAIN models.sessions) :
                     /\ models.sessions[j].status = "Available"
                     /\ \E k \in DOMAIN models.attendance :
                            /\ models.attendance[k].studentId = models.students[i].studentId
                            /\ models.attendance[k].sessionId = models.sessions[j].id
                            /\ \A h \in 1..(k - 1) :
                                   ~ /\ models.attendance[h].studentId = models.students[i].studentId
                                     /\ models.attendance[h].sessionId = models.sessions[j].id
                            /\ models.attendance[k].status \in { "Present", "Late" } }
    IN  RoundDiv(100 * Cardinality(cells), Len(models.students) * HeldSessions(models))

\* The students of a class, in the order of the mirror.
StudentsOfClass(models, classId) == SelectSeq(models.students, LAMBDA s : s.classId = classId)

\* What the analytics and the matrix show for the averages: the mean of the
\* percentages per faculty and per class, the pooled ratio for the matrix.
AnalyticsAndMatrixAverages ==
    /\ report'.kind = "analytics" =>
           /\ \A i \in DOMAIN report'.faculty :
                  LET fac == SelectSeq(DATA_MODELS'.userRoles, LAMBDA u : u.role = "faculty")[i]
                      students == StudentsOfClass(DATA_MODELS', fac.classId)
                  IN  report'.faculty[i].avgAttendance =
                          IF Len(students) > 0 /\ HeldSessions(DATA_MODELS') > 0
                          THEN JsNum(MeanOfPercentages(DATA_MODELS', students))
                          ELSE JsNum(0)
           /\ \A i \in DOMAIN report'.chartData :
                  \E c \in DOMAIN DATA_MODELS'.classes :
                      LET students == StudentsOfClass(DATA_MODELS', DATA_MODELS'.classes[c].id)
                      IN  /\ report'.chartData[i].label = DATA_MODELS'.classes[c].name
                          /\ report'.chartData[i].value =
                                 IF Len(students) > 0
                                 THEN JsNum(MeanOfPercentages(DATA_MODELS', students))
                                 ELSE JsNum(0)
    /\ (report'.kind = "overall" /\ ~ report'.noData) =>
           report'.classAverage = JsNum(PooledRatio(DATA_MODELS'))

IsPercentage(v) == v.type = "number" /\ v.val \in 0..100

\* C25: every attendance percentage shown for a student (student report,
\* dashboard average, analytics) is an integer between 0 and 100, and the
\* Sessions Attended of the student report never exceeds its Total Classes
\* Held.
C25_PercentagesWithinRange ==
    /\ report.kind = "student" =>
           /\ IsPercentage(report.attendancePercentage)
           /\ report.presentCount <= report.totalSessionsHeld
    /\ report.kind = "dashboard" => IsPercentage(report.avgAttendance)
    /\ report.kind = "analytics" =>
           /\ \A i \in DOMAIN report.faculty : IsPercentage(report.faculty[i].avgAttendance)
           /\ \A i \in DOMAIN report.chartData : IsPercentage(report.chartData[i].value)

\* The rows of the overall matrix of a mirror for a student.
MatrixRowsOf(models, studentId) ==
    LET matrix == OverallAttendanceReport(models)
    IN  IF matrix.noData THEN {}
        ELSE { matrix.rows[i] : i \in { j \in DOMAIN matrix.rows : matrix.rows[j].studentId = studentId } }

\* C26: the attendance percentage of a student in the individual student
\* report equals the trailing percentage of the student's row in the overall
\* attendance matrix computed from the same mirror.
C26_ReportAgreesWithMatrix ==
    [][ /\ (report' # report /\ report'.kind = "student") =>
               \A row \in MatrixRowsOf(DATA_MODELS', report'.studentId) :
                   row.percentage = report'.attendancePercentage
        /\ (report' # report /\ report'.kind = "overall" /\ ~ report'.noData) =>
               \A i \in DOMAIN report'.rows :
                   report'.rows[i].percentage =
                       StudentReport(DATA_MODELS', report'.rows[i].studentId).attendancePercentage
      ]_vars

\* C27: after a saveAttendance(sessionId) that reports success, every student
\* listed in the form has a record of the session in the store, with the
\* status selected for the student and the classId the mirror has for the
\* student; no listed student is skipped.  (A step that shows the success message without an
\* activity log entry is a save of the form.)
C27_SaveCoversTheForm ==
    [][ (/\ report.kind = "attendanceForm"
         /\ DOMAIN report.inputs # {}
         /\ toast' = "success"
         /\ activityLogs' = activityLogs
         /\ (toast # "success" \/ db' # db)) =>
            \A studentId \in DOMAIN report.inputs :
                LET docId == AttendanceDocId(report.sessionId, studentId)
                IN  /\ docId \in DOMAIN db'.attendance
                    /\ db'.attendance[docId].sessionId = report.sessionId
                    /\ db'.attendance[docId].studentId = studentId
                    /\ db'.attendance[docId].status = report.inputs[studentId]
                    /\ \A i \in DOMAIN DATA_MODELS.students :
                           DATA_MODELS.students[i].studentId = studentId =>
                               db'.attendance[docId].classId = DATA_MODELS.students[i].classId
      ]_vars

(***************************************************************************)
(* The claims about the login page, the logout and the migration.          *)
(***************************************************************************)
\* C28: when handleUserRole(user) on the login page has finished,
\* localStorage holds a currentUser item only if the role document of the
\* user exists with the role admin or faculty, and then the redirect to the
\* matching dashboard was issued; in every other case (no role document, read
\* error, another role) the user has been signed out, currentUser is absent
\* and no redirect was issued.  (The function finishes with its redirect, or
\* when the sign-out request its catch awaits has settled; signed out is
\* taken as: the sign-out request was made and has settled, whatever the
\* auth service answered.)
C28_LoginLeavesNoStaleUser ==
    [][ /\ (page = "login" /\ loc' # loc) =>
               /\ localStorage' # NoItem
               /\ localStorage'.uid \in DOMAIN db.userRoles
               /\ db.userRoles[localStorage'.uid].role \in { "admin", "faculty" }
               /\ loc' = db.userRoles[localStorage'.uid].role \o ".html"
        /\ (authRun.fn = "handleUserRole" /\ authRun' = NoAuthRun) =>
               /\ signOutResult' \in { "ok", "failed" }
               /\ localStorage' = NoItem
               /\ loc' = "running"
      ]_vars

\* C29: logout() has released every realtime listener and removed currentUser
\* when it issues the sign-out request; it ends with the redirect to the login
\* page whether the sign-out request succeeds or fails; and from the release
\* on no subscription callback changes the mirror.
C29_LogoutReleasesAndRedirects ==
    [][ /\ (authRun = NoAuthRun /\ authRun'.fn = "logout") =>
               /\ listeners' = {}
               /\ realtimeUnsubscribers' = << >>
               /\ localStorage' = NoItem
        /\ (authRun.fn = "logout" /\ authRun' # authRun) => loc' = "login"
        /\ (authRun.fn = "logout" \/ loc = "login") =>
               \/ loc' = "login"
               \/ lastSnapshot' = lastSnapshot /\ listeners' = {}
      ]_vars

\* A logout has ended on the login page although its sign-out request
\* failed, after a write to the store, with no listener and no currentUser
\* left.
C29_Witness ==
    /\ loc = "login"
    /\ signOutResult = "failed"
    /\ authRun = NoAuthRun
    /\ listeners = {}
    /\ localStorage = NoItem
    /\ db # SeedStore

\* The keys of a collection the migration has to move: those of the documents
\* of newId that are made of an id, an underscore and oldId.
KeysToMove(store, col, oldId, newId) ==
    { k \in DOMAIN store[col] :
        /\ store[col][k].studentId = newId
        /\ \E id \in DOMAIN store.sessions \cup DOMAIN store.assessments :
               k = id \o "_" \o oldId }

\* The key a moved document is created under.
MovedKey(store, k, newId) ==
    LET id == CHOOSE i \in DOMAIN store.sessions \cup DOMAIN store.assessments :
                  \E old \in DOMAIN store.students : k = i \o "_" \o old
    IN  id \o "_" \o newId

\* C30: runStudentIdMigration(oldId, newId) applies its changes in one atomic
\* batch: a successful migration (the step that ends with the reload of the
\* admin data) has, for some oldId and newId, created every attendance and
\* score document of newId whose key ends in _oldId under the key with _newId,
\* with the same data, and deleted the old document and students/oldId, and it
\* has left the number of attendance and of score records as it was; a step
\* that shows an error has applied nothing.
C30_MigrationMovesRecords ==
    [][ /\ (adminLoad = NoLoad /\ adminLoad' # NoLoad) =>
               \E oldId \in DOMAIN db.students, newId \in DOMAIN db.students :
                   /\ oldId \notin DOMAIN db'.students
                   /\ \A col \in { "attendance", "scores" } :
                          /\ \A k \in KeysToMove(db, col, oldId, newId) :
                                 /\ k \notin DOMAIN db'[col]
                                 /\ MovedKey(db, k, newId) \in DOMAIN db'[col]
                                 /\ db'[col][MovedKey(db, k, newId)] = db[col][k]
                          /\ Cardinality(DOMAIN db'[col]) = Cardinality(DOMAIN db[col])
        /\ toast' = "error" => db' = db
      ]_vars

====
